---- MODULE Spec2Model ----
(***************************************************************************)
(* Data-oriented scene graph and GPU-driven rendering core of the Vulkan   *)
(* cookbook implementation: flat hierarchy arrays, dirty-transform         *)
(* propagation, node deletion and scene merging, indirect draw-command     *)
(* assembly and frustum culling.                                           *)
(***************************************************************************)
EXTENDS Integers, Sequences, FiniteSets, TLC

(***************************************************************************)
(* Bounds of the exploration.                                              *)
(***************************************************************************)
MaxNodes == 4
MaxEdits == 2
MaxIds == 2

\* vector<int> changedAtThisFrame[MAX_NODE_LEVEL]
MAX_NODE_LEVEL == 16

(***************************************************************************)
(* Small helpers on sequences and maps.                                    *)
(***************************************************************************)
Range(f) == {f[x] : x \in DOMAIN f}

EmptyMap == [x \in {} |-> 0]

MapPut(m, k, v) == [x \in (DOMAIN m) \cup {k} |-> IF x = k THEN v ELSE m[x]]

(***************************************************************************)
(* glm::mat4 restricted to the family closed under multiplication that is  *)
(* made of a uniform scale s followed by a translation t:                  *)
(*   [ s 0 0 t1 ; 0 s 0 t2 ; 0 0 s t3 ; 0 0 0 1 ].                         *)
(***************************************************************************)
Identity == [s |-> 1, t |-> <<0, 0, 0>>]

\* a * b
MatMul(a, b) == [s |-> a.s * b.s,
                 t |-> [i \in 1..3 |-> a.s * b.t[i] + a.t[i]]]

\* the transformations an edit or an import may apply
Deltas == {[s |-> 2, t |-> <<1, 0, 0>>], [s |-> -1, t |-> <<0, 2, 0>>]}

(***************************************************************************)
(* struct Hierarchy and struct Scene.  Node ids are 0-based as in the      *)
(* code; the arrays are TLA+ sequences, so node n lives at position n+1.   *)
(***************************************************************************)
Hierarchy(p, fc, ns, ls, lv) ==
  [parent |-> p, firstChild |-> fc, nextSibling |-> ns, lastSibling |-> ls,
   level |-> lv]

NoChanges == [l \in 0..(MAX_NODE_LEVEL - 1) |-> << >>]

EmptyScene ==
  [hierarchy |-> << >>, localTransform |-> << >>, globalTransform |-> << >>,
   meshForNode |-> EmptyMap, materialForNode |-> EmptyMap,
   nameForNode |-> EmptyMap, nodeNames |-> << >>, materialNames |-> << >>,
   changedAtThisFrame |-> NoChanges]

NumNodes(sc) == Len(sc.hierarchy)

Nodes(sc) == 0..(NumNodes(sc) - 1)

\* scene.hierarchy[n]
H(sc, n) == sc.hierarchy[n + 1]

SetH(hier, n, field, v) == [hier EXCEPT ![n + 1][field] = v]

(***************************************************************************)
(* addNode(scene, parent, level)                                           *)
(***************************************************************************)
RECURSIVE LastInChain(_, _)
\* for (dest = s; hierarchy[dest].nextSibling != -1; dest = ...nextSibling);
LastInChain(hier, dest) ==
  IF hier[dest + 1].nextSibling = -1 THEN dest
  ELSE LastInChain(hier, hier[dest + 1].nextSibling)

\* appending after the first child
AppendDest_FirstChild(hier, s) == s

\* the destination the new node is appended after, when parent has children
AppendDest(hier, s) ==
  IF hier[s + 1].lastSibling <= -1 THEN LastInChain(hier, s)
  ELSE hier[s + 1].lastSibling

\* addNode without its last three assignments
addNode_DefaultsKept(sc, parent, level) ==
  LET node == Len(sc.hierarchy)
      h0   == Append(sc.hierarchy, Hierarchy(parent, -1, -1, -1, 0))
      h1   == IF parent > -1
              THEN LET s == h0[parent + 1].firstChild IN
                   IF s = -1
                   THEN SetH(SetH(h0, parent, "firstChild", node),
                             node, "lastSibling", node)
                   ELSE SetH(SetH(h0, AppendDest(h0, s), "nextSibling", node),
                             s, "lastSibling", node)
              ELSE h0
  IN [scene |-> [sc EXCEPT !.localTransform = Append(@, Identity),
                           !.globalTransform = Append(@, Identity),
                           !.hierarchy = h1],
      node  |-> node]

addNode(sc, parent, level) ==
  LET node == Len(sc.hierarchy)
      h0   == Append(sc.hierarchy, Hierarchy(parent, -1, -1, -1, 0))
      h1   == IF parent > -1
              THEN LET s == h0[parent + 1].firstChild IN
                   IF s = -1
                   THEN SetH(SetH(h0, parent, "firstChild", node),
                             node, "lastSibling", node)
                   ELSE SetH(SetH(h0, AppendDest(h0, s), "nextSibling", node),
                             s, "lastSibling", node)
              ELSE h0
      h2   == SetH(SetH(SetH(h1, node, "level", level),
                        node, "nextSibling", -1), node, "firstChild", -1)
  IN [scene |-> [sc EXCEPT !.localTransform = Append(@, Identity),
                           !.globalTransform = Append(@, Identity),
                           !.hierarchy = h2],
      node  |-> node]

(***************************************************************************)
(* markAsChanged(scene, node): the node, then its children recursively.    *)
(***************************************************************************)
RECURSIVE markAsChanged(_, _)
RECURSIVE MarkSiblings_NoDescent(_, _)
\* the loop over the children appending each child without descending
MarkSiblings_NoDescent(sc, s) ==
  IF s = -1 THEN sc
  ELSE MarkSiblings_NoDescent(
         [sc EXCEPT !.changedAtThisFrame[H(sc, s).level] = Append(@, s)],
         H(sc, s).nextSibling)

RECURSIVE MarkSiblings(_, _)
MarkSiblings(sc, s) ==
  IF s = -1 THEN sc
  ELSE MarkSiblings(markAsChanged(sc, s), H(sc, s).nextSibling)

markAsChanged(sc, node) ==
  LET level == H(sc, node).level
      sc1   == [sc EXCEPT !.changedAtThisFrame[level] = Append(@, node)]
  IN MarkSiblings(sc1, H(sc, node).firstChild)

(***************************************************************************)
(* recalculateGlobalTransforms(scene)                                      *)
(***************************************************************************)
RECURSIVE RecalcNodes_FromParentLocal(_, _, _)
\* the inner loop multiplying by the local transform of the parent
RecalcNodes_FromParentLocal(sc, list, k) ==
  IF k > Len(list) THEN sc
  ELSE LET c == list[k]
           p == H(sc, c).parent
       IN RecalcNodes_FromParentLocal(
            [sc EXCEPT !.globalTransform[c + 1] =
                          MatMul(sc.localTransform[p + 1],
                                 sc.localTransform[c + 1])],
            list, k + 1)

RECURSIVE RecalcNodes(_, _, _)
\* for (int c : changedAtThisFrame[i]) global[c] = global[parent] * local[c]
RecalcNodes(sc, list, k) ==
  IF k > Len(list) THEN sc
  ELSE LET c == list[k]
           p == H(sc, c).parent
       IN RecalcNodes(
            [sc EXCEPT !.globalTransform[c + 1] =
                          MatMul(sc.globalTransform[p + 1],
                                 sc.localTransform[c + 1])],
            list, k + 1)

RECURSIVE RecalcLevels(_, _)
\* for (i = 1; i < MAX_NODE_LEVEL && !changedAtThisFrame[i].empty(); i++)
RecalcLevels(sc, i) ==
  IF i < MAX_NODE_LEVEL /\ sc.changedAtThisFrame[i] # << >>
  THEN LET sc1 == RecalcNodes(sc, sc.changedAtThisFrame[i], 1)
       IN RecalcLevels([sc1 EXCEPT !.changedAtThisFrame[i] = << >>], i + 1)
  ELSE sc

RecalcRoot(sc) ==
  IF sc.changedAtThisFrame[0] # << >>
  THEN LET c == sc.changedAtThisFrame[0][1]
       IN [sc EXCEPT !.globalTransform[c + 1] = sc.localTransform[c + 1],
                     !.changedAtThisFrame[0] = << >>]
  ELSE sc

recalculateGlobalTransforms(sc) == RecalcLevels(RecalcRoot(sc), 1)

(***************************************************************************)
(* The scene editor's transform edit: the local transform is multiplied    *)
(* by the delta and the node is marked as changed.                         *)
(***************************************************************************)
editTransform(sc, node, delta) ==
  markAsChanged(
    [sc EXCEPT !.localTransform[node + 1] = MatMul(@, delta)], node)

(***************************************************************************)
(* std::binary_search as the standard libraries implement it: lower_bound  *)
(* by halving, then a comparison with the element found.  On a range that  *)
(* is not sorted the same steps run and may miss a value that is present.  *)
(***************************************************************************)
RECURSIVE LowerBound(_, _, _, _)
\* first is a 0-based position in v, len the length of the searched range
LowerBound(v, val, first, len) ==
  IF len <= 0 THEN first
  ELSE LET half == len \div 2
           mid  == first + half
       IN IF v[mid + 1] < val
          THEN LowerBound(v, val, mid + 1, len - half - 1)
          ELSE LowerBound(v, val, first, half)

binary_search(v, val) ==
  LET i == LowerBound(v, val, 0, Len(v))
  IN i # Len(v) /\ ~(val < v[i + 1])

\* addUniqueIdx(v, index)
addUniqueIdx(v, index) ==
  IF ~binary_search(v, index) THEN Append(v, index) ELSE v

(***************************************************************************)
(* collectNodesToDelete(scene, node, nodes): every child of node is added  *)
(* and collected recursively.                                              *)
(***************************************************************************)
RECURSIVE collectNodesToDelete(_, _, _)
RECURSIVE CollectChain(_, _, _)
CollectChain(sc, n, nodes) ==
  IF n = -1 THEN nodes
  ELSE CollectChain(sc, H(sc, n).nextSibling,
                    collectNodesToDelete(sc, n, addUniqueIdx(nodes, n)))

collectNodesToDelete(sc, node, nodes) ==
  CollectChain(sc, H(sc, node).firstChild, nodes)

(***************************************************************************)
(* eraseSelected(v, selection): stable_partition keeps, in order, the      *)
(* items whose index is not found in selection, and resize drops the rest. *)
(***************************************************************************)
RECURSIVE KeepFrom(_, _, _)
KeepFrom(v, selection, i) ==
  IF i >= Len(v) THEN << >>
  ELSE IF binary_search(selection, i)
       THEN KeepFrom(v, selection, i + 1)
       ELSE <<v[i + 1]>> \o KeepFrom(v, selection, i + 1)

eraseSelected(v, selection) == KeepFrom(v, selection, 0)

(***************************************************************************)
(* deleteSceneNodes(scene, nodesToDelete)                                  *)
(***************************************************************************)
\* for (uint32_t i : indicesToDelete) collectNodesToDelete(scene, i, ...):
\* the list after the first k iterations, reads[j] being the value the
\* j-th iteration read through the loop's iterator
RECURSIVE CollectedAfter(_, _, _, _)
CollectedAfter(sc, nodesToDelete, reads, k) ==
  IF k = 0 THEN nodesToDelete
  ELSE collectNodesToDelete(sc, reads[k],
                            CollectedAfter(sc, nodesToDelete, reads, k - 1))

\* The loop's iterators are taken from indicesToDelete before the first
\* push_back.  The copy owns exactly Len(nodesToDelete) slots, so the first
\* push_back reallocates and every later read goes through a dangling
\* iterator: it yields the value left in the freed block or whatever the
\* allocator has written there.  (A value that is not a node id makes
\* collectNodesToDelete index outside the hierarchy; such runs yield no
\* scene and are not represented.)
PossibleReads(sc, nodesToDelete) ==
  {reads \in [1..Len(nodesToDelete) -> Nodes(sc)] :
     \A k \in 1..Len(nodesToDelete) :
       Len(CollectedAfter(sc, nodesToDelete, reads, k - 1))
           = Len(nodesToDelete)
         => reads[k] = nodesToDelete[k]}

\* std::vector<int> nodes(hierarchy.size()); std::iota(..., 0)
Iota(n) == [i \in 1..n |-> i - 1]

\* newIndices[nodes[i]] = i, -1 elsewhere
NewIndices(nodes, oldSize) ==
  [old \in 1..oldSize |->
     IF \E i \in 1..Len(nodes) : nodes[i] = old - 1
     THEN (CHOOSE i \in 1..Len(nodes) : nodes[i] = old - 1) - 1
     ELSE -1]

\* findLastNonDeletedItem without the walk to the next sibling
findLastNonDeletedItem_NoWalk(hier, newIndices, node) ==
  IF node = -1 THEN -1 ELSE newIndices[node + 1]

RECURSIVE findLastNonDeletedItem(_, _, _)
findLastNonDeletedItem(hier, newIndices, node) ==
  IF node = -1 THEN -1
  ELSE IF newIndices[node + 1] = -1
       THEN findLastNonDeletedItem(hier, newIndices,
                                   hier[node + 1].nextSibling)
       ELSE newIndices[node + 1]

\* nodeMover keeping the old index of the parent
nodeMover_ParentKept(hier, newIndices, h) ==
  Hierarchy(h.parent,
            findLastNonDeletedItem(hier, newIndices, h.firstChild),
            findLastNonDeletedItem(hier, newIndices, h.nextSibling),
            findLastNonDeletedItem(hier, newIndices, h.lastSibling),
            0)

\* the lambda builds a fresh Hierarchy from four designated fields; level
\* is not among them and takes its default member initializer
nodeMover(hier, newIndices, h) ==
  Hierarchy(IF h.parent # -1 THEN newIndices[h.parent + 1] ELSE -1,
            findLastNonDeletedItem(hier, newIndices, h.firstChild),
            findLastNonDeletedItem(hier, newIndices, h.nextSibling),
            findLastNonDeletedItem(hier, newIndices, h.lastSibling),
            0)

RECURSIVE TransformHierarchy(_, _, _)
\* std::transform(hierarchy.begin(), hierarchy.end(), hierarchy.begin(),
\* nodeMover): in place, front to back
TransformHierarchy(hier, newIndices, i) ==
  IF i > Len(hier) THEN hier
  ELSE TransformHierarchy(
         [hier EXCEPT ![i] = nodeMover(hier, newIndices, hier[i])],
         newIndices, i + 1)

\* shiftMapIndices dropping the deleted keys without relabelling the others
shiftMapIndices_KeysKept(items, newIndices) ==
  [k \in {x \in DOMAIN items : newIndices[x + 1] # -1} |-> items[k]]

\* items = newItems, with newItems[newIndices[m.first]] = m.second for the
\* pairs whose key has a new index
shiftMapIndices(items, newIndices) ==
  LET kept == {k \in DOMAIN items : newIndices[k + 1] # -1}
  IN [n \in {newIndices[k + 1] : k \in kept} |->
        items[CHOOSE k \in kept : newIndices[k + 1] = n]]

\* the linear index list left by eraseSelected(nodes, indicesToDelete):
\* the old ids of the nodes that are kept, in their new order
KeptNodes(sc, nodesToDelete, reads) ==
  eraseSelected(Iota(Len(sc.hierarchy)),
                CollectedAfter(sc, nodesToDelete, reads, Len(nodesToDelete)))

deleteSceneNodes(sc, nodesToDelete, reads) ==
  LET indicesToDelete ==
        CollectedAfter(sc, nodesToDelete, reads, Len(nodesToDelete))
      oldSize    == Len(sc.hierarchy)
      nodes      == KeptNodes(sc, nodesToDelete, reads)
      newIndices == NewIndices(nodes, oldSize)
      moved      == TransformHierarchy(sc.hierarchy, newIndices, 1)
  IN [sc EXCEPT
        !.hierarchy = eraseSelected(moved, indicesToDelete),
        !.localTransform = eraseSelected(@, indicesToDelete),
        !.globalTransform = eraseSelected(@, indicesToDelete),
        !.meshForNode = shiftMapIndices(@, newIndices),
        !.materialForNode = shiftMapIndices(@, newIndices),
        !.nameForNode = shiftMapIndices(@, newIndices)]

(***************************************************************************)
(* mergeScenes and its helpers.                                            *)
(***************************************************************************)
\* shiftNode forgetting the first child
shiftNode_KeepsFirstChild(node, shiftAmount) ==
  [node EXCEPT
     !.parent = IF @ > -1 THEN @ + shiftAmount ELSE @,
     !.nextSibling = IF @ > -1 THEN @ + shiftAmount ELSE @,
     !.lastSibling = IF @ > -1 THEN @ + shiftAmount ELSE @]

\* the shiftNode lambda
shiftNode(node, shiftAmount) ==
  [node EXCEPT
     !.parent = IF @ > -1 THEN @ + shiftAmount ELSE @,
     !.firstChild = IF @ > -1 THEN @ + shiftAmount ELSE @,
     !.nextSibling = IF @ > -1 THEN @ + shiftAmount ELSE @,
     !.lastSibling = IF @ > -1 THEN @ + shiftAmount ELSE @]

\* shiftNodes moving the records of the whole array
shiftNodes_WholeArray(hier, startOffset, nodeCount, shiftAmount) ==
  [i \in 1..Len(hier) |-> shiftNode(hier[i], shiftAmount)]

\* shiftNodes(scene, startOffset, nodeCount, shiftAmount) on the hierarchy
shiftNodes(hier, startOffset, nodeCount, shiftAmount) ==
  [i \in 1..Len(hier) |->
     IF i - 1 >= startOffset /\ i - 1 < startOffset + nodeCount
     THEN shiftNode(hier[i], shiftAmount)
     ELSE hier[i]]

\* mergeMaps(m, otherMap, indexOffset, itemOffset)
mergeMaps(m, otherMap, indexOffset, itemOffset) ==
  [k \in (DOMAIN m) \cup {i + indexOffset : i \in DOMAIN otherMap} |->
     IF k - indexOffset \in DOMAIN otherMap
     THEN otherMap[k - indexOffset] + itemOffset
     ELSE m[k]]

\* mergeVectors(v1, v2)
mergeVectors(v1, v2) == v1 \o v2

\* the state of mergeScenes' first loop
MergeState(sc) ==
  [scene |-> sc, offs |-> 1, meshOffs |-> 0,
   nameOffs |-> Len(sc.nodeNames), materialOfs |-> 0]

\* one iteration of the first loop: append the arrays of s, shift its
\* records and maps, advance the offsets
MergeOne(st, s, meshCount, mergeMeshes, mergeMaterials) ==
  LET nodeCount == Len(s.hierarchy)
      sc == st.scene
  IN [scene |->
        [sc EXCEPT
           !.localTransform = mergeVectors(@, s.localTransform),
           !.globalTransform = mergeVectors(@, s.globalTransform),
           !.hierarchy = shiftNodes(mergeVectors(@, s.hierarchy),
                                    st.offs, nodeCount, st.offs),
           !.nodeNames = mergeVectors(@, s.nodeNames),
           !.materialNames = IF mergeMaterials
                             THEN mergeVectors(@, s.materialNames) ELSE @,
           !.meshForNode = mergeMaps(@, s.meshForNode, st.offs,
                                     IF mergeMeshes THEN st.meshOffs ELSE 0),
           !.materialForNode =
              mergeMaps(@, s.materialForNode, st.offs,
                        IF mergeMaterials THEN st.materialOfs ELSE 0),
           !.nameForNode = mergeMaps(@, s.nameForNode, st.offs, st.nameOffs)],
      offs |-> st.offs + nodeCount,
      materialOfs |-> st.materialOfs + Len(s.materialNames),
      nameOffs |-> st.nameOffs + Len(s.nodeNames),
      meshOffs |-> IF mergeMeshes THEN st.meshOffs + meshCount
                   ELSE st.meshOffs]

RECURSIVE MergeAll(_, _, _, _, _, _)
MergeAll(st, scenes, meshCounts, mergeMeshes, mergeMaterials, idx) ==
  IF idx > Len(scenes) THEN st.scene
  ELSE MergeAll(MergeOne(st, scenes[idx], meshCounts[idx],
                         mergeMeshes, mergeMaterials),
                scenes, meshCounts, mergeMeshes, mergeMaterials, idx + 1)

RECURSIVE AttachRoots(_, _, _, _, _)
\* the second loop: the old roots become the children of the new root;
\* idx counts the scenes from 1
AttachRoots(sc, scenes, rootTransforms, offs, idx) ==
  IF idx > Len(scenes) THEN sc
  ELSE LET nodeCount == Len(scenes[idx].hierarchy)
           isLast    == idx = Len(scenes)
           next      == IF isLast THEN -1 ELSE offs + nodeCount
           sc1 == [sc EXCEPT !.hierarchy[offs + 1].nextSibling = next,
                             !.hierarchy[offs + 1].parent = 0]
           sc2 == IF rootTransforms # << >>
                  THEN [sc1 EXCEPT !.localTransform[offs + 1] =
                                      MatMul(rootTransforms[idx], @)]
                  ELSE sc1
       IN AttachRoots(sc2, scenes, rootTransforms, offs + nodeCount, idx + 1)

\* the last loop starting at the first node
IncrementLevels_RootToo(hier) ==
  [i \in 1..Len(hier) |-> [hier[i] EXCEPT !.level = @ + 1]]

\* the last loop: i->level++ for every node but the first
IncrementLevels(hier) ==
  [i \in 1..Len(hier) |->
     IF i = 1 THEN hier[i] ELSE [hier[i] EXCEPT !.level = @ + 1]]

\* mm and mt are the flags mergeMeshes and mergeMaterials
mergeScenes(sc, scenes, rootTransforms, meshCounts, mm, mt) ==
  LET sc0 == [sc EXCEPT
                !.hierarchy = <<Hierarchy(-1, 1, -1, -1, 0)>>,
                !.nameForNode = MapPut(@, 0, 0),
                !.nodeNames = <<"NewRoot">>,
                !.localTransform = Append(@, Identity),
                !.globalTransform = Append(@, Identity)]
  IN IF scenes = << >> THEN sc0
     ELSE LET sc1 == IF ~mt
                     THEN [sc0 EXCEPT !.materialNames =
                                         scenes[1].materialNames]
                     ELSE sc0
              sc2 == MergeAll(MergeState(sc1), scenes, meshCounts,
                              mm, mt, 1)
              sc3 == AttachRoots(sc2, scenes, rootTransforms, 1, 1)
          IN [sc3 EXCEPT !.hierarchy = IncrementLevels(@)]

(***************************************************************************)
(* MeshData: the mesh descriptors, their bounding boxes and the sizes of   *)
(* the index and material arrays.                                          *)
(***************************************************************************)
\* Mesh::getLODIndicesCount
getLODIndicesCount(mesh, lod) ==
  IF lod < mesh.lodCount
  THEN mesh.lodOffset[lod + 2] - mesh.lodOffset[lod + 1]
  ELSE 0

NoMeshData ==
  [meshes |-> << >>, boxes |-> << >>, numIndices |-> 0, numMaterials |-> 0]

\* mergeMeshData: one iteration of the loop over md
MergeMeshDataOne(st, i) ==
  [m |-> [meshes |-> mergeVectors(st.m.meshes,
                       [j \in 1..Len(i.meshes) |->
                          [i.meshes[j] EXCEPT
                             !.indexOffset = @ + st.numTotalIndices,
                             !.materialID = @ + st.mtlOffset]]),
          boxes |-> mergeVectors(st.m.boxes, i.boxes),
          numIndices |-> st.m.numIndices + i.numIndices,
          numMaterials |-> st.m.numMaterials + i.numMaterials],
   mtlOffset |-> st.mtlOffset + i.numMaterials,
   numTotalIndices |-> st.numTotalIndices + i.numIndices]

RECURSIVE MergeMeshDataFrom(_, _, _)
MergeMeshDataFrom(st, md, k) ==
  IF k > Len(md) THEN st.m
  ELSE MergeMeshDataFrom(MergeMeshDataOne(st, md[k]), md, k + 1)

\* mergeMeshData(m, md) on an empty m; the materials are merged along by
\* mergeMaterialLists
mergeMeshData(md) ==
  MergeMeshDataFrom([m |-> NoMeshData, mtlOffset |-> 0, numTotalIndices |-> 0],
                    md, 1)

(***************************************************************************)
(* mergeNodesWithMaterial and its helpers.  The MeshData is a record with  *)
(* the fields meshes and indexData among its fields.                       *)
(***************************************************************************)
RECURSIVE MinVtxOffset(_, _, _)
\* the first loop of shiftMeshIndices, over at least one mesh: the first
\* vertexOffset is below the initial maximum of uint32_t
MinVtxOffset(meshes, meshesToMerge, k) ==
  LET v == meshes[meshesToMerge[k] + 1].vertexOffset
  IN IF k = 1 THEN v
     ELSE LET rest == MinVtxOffset(meshes, meshesToMerge, k - 1)
          IN IF v < rest THEN v ELSE rest

\* meshData.indexData[m.indexOffset + ii] += delta for ii < idxCount; an
\* index outside the array is left to overrun
AddDelta(indexData, indexOffset, idxCount, delta) ==
  [j \in 1..Len(indexData) |->
     IF j - 1 >= indexOffset /\ j - 1 < indexOffset + idxCount
     THEN indexData[j] + delta
     ELSE indexData[j]]

\* one turn of the second loop of shiftMeshIndices, for the mesh i, from
\* the state st the turns before have left
ShiftMesh(st, i, minVtxOffset) ==
  LET m        == st.md.meshes[i + 1]
      delta    == m.vertexOffset - minVtxOffset
      idxCount == getLODIndicesCount(m, 0)
  IN [md |-> [st.md EXCEPT
                !.indexData = AddDelta(@, m.indexOffset, idxCount, delta),
                !.meshes[i + 1].vertexOffset = minVtxOffset],
      mergeCount |-> st.mergeCount + idxCount,
      overrun |-> st.overrun
                  \/ m.indexOffset + idxCount > Len(st.md.indexData)]

RECURSIVE ShiftMeshes(_, _, _, _)
\* the second loop of shiftMeshIndices over the first k meshes to merge
ShiftMeshes(md, meshesToMerge, minVtxOffset, k) ==
  IF k = 0 THEN [md |-> md, mergeCount |-> 0, overrun |-> FALSE]
  ELSE ShiftMesh(ShiftMeshes(md, meshesToMerge, minVtxOffset, k - 1),
                 meshesToMerge[k], minVtxOffset)

\* return meshData.indexData.size() - mergeCount, after the loops have
\* left the state st
ShiftResult(md, st) ==
  [md |-> st.md,
   mergeOffset |-> Len(md.indexData) - st.mergeCount,
   overrun |-> st.overrun \/ st.mergeCount > Len(md.indexData)]

\* shiftMeshIndices(meshData, meshesToMerge): the MeshData shifted and the
\* offset it returns; a negative difference stands for the uint32_t it wraps
\* to, which lies beyond the end of every index array
shiftMeshIndices(md, meshesToMerge) ==
  ShiftResult(md, ShiftMeshes(md, meshesToMerge,
                              MinVtxOffset(md.meshes, meshesToMerge,
                                           Len(meshesToMerge)),
                              Len(meshesToMerge)))

\* std::copy(start, start + idxCount, newIndices.begin() + at); what falls
\* outside either array is left to overrun
CopyIndices(newIndices, indexData, start, idxCount, at) ==
  [j \in 1..Len(newIndices) |->
     IF /\ at >= 0 /\ j - 1 >= at /\ j - 1 < at + idxCount
        /\ start + (j - 1 - at) < Len(indexData)
     THEN indexData[start + (j - 1 - at) + 1]
     ELSE newIndices[j]]

\* one turn of the loop of mergeIndexArray, for the mesh this, from the
\* state st the turns before have left
MergeIndexTurn(st, md, meshesToMerge, this, shouldMerge) ==
  LET mesh     == st.meshes[this + 1]
      idxCount == getLODIndicesCount(mesh, 0)
      start    == mesh.indexOffset
      at       == IF shouldMerge THEN st.mergeOffset ELSE st.copyOffset
  IN [meshes |-> [st.meshes EXCEPT ![this + 1].indexOffset = st.copyOffset],
      newIndices |-> CopyIndices(st.newIndices, md.indexData, start,
                                 idxCount, at),
      copyOffset |-> IF shouldMerge THEN st.copyOffset
                     ELSE st.copyOffset + idxCount,
      mergeOffset |-> IF shouldMerge THEN st.mergeOffset + idxCount
                      ELSE st.mergeOffset,
      newIndex |-> IF shouldMerge THEN st.newIndex ELSE st.newIndex + 1,
      oldToNew |-> MapPut(st.oldToNew, this,
                          IF shouldMerge
                          THEN Len(md.meshes) - Len(meshesToMerge)
                          ELSE st.newIndex),
      overrun |-> st.overrun
                  \/ at < 0
                  \/ at + idxCount > Len(md.indexData)
                  \/ start + idxCount > Len(md.indexData)]

RECURSIVE MergeIndexLoop(_, _, _, _)
\* the loop of mergeIndexArray over the meshes 0..midx-1
MergeIndexLoop(md, meshesToMerge, mergeOffset0, midx) ==
  IF midx = 0
  THEN [meshes |-> md.meshes,
        newIndices |-> [j \in 1..Len(md.indexData) |-> 0],
        copyOffset |-> 0, mergeOffset |-> mergeOffset0, newIndex |-> 0,
        oldToNew |-> EmptyMap, overrun |-> FALSE]
  ELSE MergeIndexTurn(MergeIndexLoop(md, meshesToMerge, mergeOffset0, midx - 1),
                      md, meshesToMerge, midx - 1,
                      binary_search(meshesToMerge, midx - 1))

\* the end of mergeIndexArray: the merged mesh is pushed back, from the
\* state st the loop has left
MergedIndexArray(shifted, st, meshesToMerge) ==
  LET first    == st.meshes[meshesToMerge[1] + 1]
      lastMesh == [first EXCEPT !.indexOffset = st.copyOffset,
                                !.lodOffset[1] = st.copyOffset,
                                !.lodOffset[2] = st.mergeOffset,
                                !.lodCount = 1]
  IN [md |-> [shifted.md EXCEPT !.meshes = Append(st.meshes, lastMesh),
                                !.indexData = st.newIndices],
      oldToNew |-> st.oldToNew,
      overrun |-> shifted.overrun \/ st.overrun]

\* mergeIndexArray after shiftMeshIndices has returned shifted
MergeIndexLoopOf(md, meshesToMerge, shifted) ==
  MergedIndexArray(shifted,
                   MergeIndexLoop(shifted.md, meshesToMerge,
                                  shifted.mergeOffset, Len(md.meshes)),
                   meshesToMerge)

\* mergeIndexArray(md, meshesToMerge, oldToNew), called with at least one
\* mesh to merge
mergeIndexArray(md, meshesToMerge) ==
  MergeIndexLoopOf(md, meshesToMerge, shiftMeshIndices(md, meshesToMerge))

\* std::distance(begin, std::find(begin, end, materialName))
FindMaterial(materialNames, materialName) ==
  IF \E i \in 1..Len(materialNames) : materialNames[i] = materialName
  THEN (CHOOSE i \in 1..Len(materialNames) :
          /\ materialNames[i] = materialName
          /\ \A j \in 1..(i - 1) : materialNames[j] # materialName) - 1
  ELSE Len(materialNames)

\* the scene nodes with a mesh and the material, in ascending order
NodesToMerge(sc, oldMaterial) ==
  SelectSeq([i \in 1..Len(sc.hierarchy) |-> i - 1],
            LAMBDA i : /\ i \in DOMAIN sc.meshForNode
                       /\ i \in DOMAIN sc.materialForNode
                       /\ sc.materialForNode[i] = oldMaterial)

\* the scene with meshForNode remapped through oldToNew
RemapMeshes(sc, oldToNew) ==
  [sc EXCEPT !.meshForNode = [n \in DOMAIN sc.meshForNode |->
                                oldToNew[sc.meshForNode[n]]]]

\* the new node r of addNode gets the merged mesh and the material
AttachMerged(r, merged, oldMaterial) ==
  [r.scene EXCEPT
     !.meshForNode = MapPut(@, r.node, Len(merged.md.meshes) - 1),
     !.materialForNode = MapPut(@, r.node, oldMaterial)]

\* the end of mergeNodesWithMaterial: deleteSceneNodes(scene, toDelete) on
\* the scene sc1 that holds the merged node
DeleteMerged(sc1, toDelete, merged, reads) ==
  [scene |-> deleteSceneNodes(sc1, toDelete, reads),
   before |-> sc1,
   toDelete |-> toDelete,
   meshData |-> merged.md,
   overrun |-> merged.overrun]

\* mergeNodesWithMaterial after mergeIndexArray has returned merged
AddMerged(sc, oldMaterial, toDelete, merged, reads) ==
  DeleteMerged(AttachMerged(addNode(RemapMeshes(sc, merged.oldToNew), 0, 1),
                            merged, oldMaterial),
               toDelete, merged, reads)

\* the meshes of the nodes toDelete, in their order
MeshesToMerge(sc, toDelete) ==
  [k \in 1..Len(toDelete) |-> sc.meshForNode[toDelete[k]]]

\* mergeNodesWithMaterial once the material and the nodes are found
MergeNodes(sc, md, oldMaterial, toDelete, reads) ==
  AddMerged(sc, oldMaterial, toDelete,
            mergeIndexArray(md, MeshesToMerge(sc, toDelete)), reads)

\* mergeNodesWithMaterial(scene, meshData, materialName) for a material
\* that some mesh node has; reads are the values the loop of
\* deleteSceneNodes reads through its iterator
mergeNodesWithMaterial(sc, md, materialName, reads) ==
  MergeNodes(sc, md, FindMaterial(sc.materialNames, materialName),
             NodesToMerge(sc, FindMaterial(sc.materialNames, materialName)),
             reads)

(***************************************************************************)
(* VKMesh: the indirect draw commands and the draw data.  order is the     *)
(* order in which the unordered_map meshForNode is iterated.               *)
(***************************************************************************)
DrawIndexedIndirectCommand(c, ic, fi, bv, bi) ==
  [count |-> c, instanceCount |-> ic, firstIndex |-> fi, baseVertex |-> bv,
   baseInstance |-> bi]

DrawData(transformId, materialId) ==
  [transformId |-> transformId, materialId |-> materialId]

\* the elements vector::resize creates
ZeroCommand == DrawIndexedIndirectCommand(0, 0, 0, 0, 0)

ZeroDrawData == DrawData(0, 0)

\* the orders in which a map with the keys S may be iterated
Orders(S) == {f \in [1..Cardinality(S) -> S] : Range(f) = S}

\* the command and the draw data written for the k-th pair of meshForNode
CommandFor(sc, md, order, k) ==
  LET mesh == md.meshes[sc.meshForNode[order[k]] + 1]
  IN DrawIndexedIndirectCommand(getLODIndicesCount(mesh, 0), 1,
                                mesh.indexOffset, mesh.vertexOffset, k - 1)

DrawDataFor(sc, md, order, k) ==
  DrawData(order[k], md.meshes[sc.meshForNode[order[k]] + 1].materialID)

\* the part of the constructor that fills the two vectors: both are resized
\* to header.meshCount, then one element is written per pair of meshForNode.
\* With more pairs than meshes the writes run past the end of both vectors;
\* clobbered tells whether the commands written past the end of drawCommands
\* land on the first element of drawData.
VKMesh(sc, md, order, clobbered) ==
  LET numCommands == Len(md.meshes)
      pairs       == Len(order)
      stray       == CommandFor(sc, md, order, numCommands + 1)
  IN [drawCommands |->
        [k \in 1..numCommands |->
           IF k <= pairs THEN CommandFor(sc, md, order, k) ELSE ZeroCommand],
      drawData |->
        [k \in 1..numCommands |->
           IF k = 1 /\ clobbered
           THEN DrawData(stray.count, stray.instanceCount)
           ELSE IF k <= pairs THEN DrawDataFor(sc, md, order, k)
                ELSE ZeroDrawData]]

(***************************************************************************)
(* Frustum culling.  The view-projection matrix is of the family of        *)
(* Identity and MatMul; a frustum corner is the quotient of the vector n   *)
(* and the number d, as it comes out of the division by q.w.               *)
(***************************************************************************)
dot(p, v) == p[1] * v[1] + p[2] * v[2] + p[3] * v[3] + p[4] * v[4]

\* A view-projection matrix outside that family is [m |-> its four rows].
IsRows(vp) == "m" \in DOMAIN vp

\* the i-th row of the matrix
MatRow(vp, i) ==
  IF IsRows(vp) THEN vp.m[i]
  ELSE IF i = 4 THEN <<0, 0, 0, 1>>
  ELSE [j \in 1..4 |-> IF j = i THEN vp.s ELSE IF j = 4 THEN vp.t[i] ELSE 0]

VecAdd(a, b) == [j \in 1..4 |-> a[j] + b[j]]

VecSub(a, b) == [j \in 1..4 |-> a[j] - b[j]]

getFrustumPlanes(vp) ==
  <<VecAdd(MatRow(vp, 4), MatRow(vp, 1)), VecSub(MatRow(vp, 4), MatRow(vp, 1)),
    VecAdd(MatRow(vp, 4), MatRow(vp, 2)), VecSub(MatRow(vp, 4), MatRow(vp, 2)),
    VecAdd(MatRow(vp, 4), MatRow(vp, 3)), VecSub(MatRow(vp, 4), MatRow(vp, 3))>>

NdcCorners ==
  << <<-1, -1, -1>>, <<1, -1, -1>>, <<1, 1, -1>>, <<-1, 1, -1>>,
     <<-1, -1, 1>>, <<1, -1, 1>>, <<1, 1, 1>>, <<-1, 1, 1>> >>

\* the determinant of the 3 x 3 matrix with the rows a, b, c
Det3(a, b, c) ==
  a[1] * (b[2] * c[3] - b[3] * c[2])
  - a[2] * (b[1] * c[3] - b[3] * c[1])
  + a[3] * (b[1] * c[2] - b[2] * c[1])

\* the n-th of the indices 1..4 other than k
Skip(k, n) == IF n < k THEN n ELSE n + 1

Cofactor(m, i, j) ==
  (IF (i + j) % 2 = 0 THEN 1 ELSE -1)
  * Det3([c \in 1..3 |-> m[Skip(i, 1)][Skip(j, c)]],
         [c \in 1..3 |-> m[Skip(i, 2)][Skip(j, c)]],
         [c \in 1..3 |-> m[Skip(i, 3)][Skip(j, c)]])

\* inverse(m) * v up to the factor 1 / det(m), which the division by q.w
\* cancels
InverseTimes(m, v) ==
  [i \in 1..4 |-> Cofactor(m, 1, i) * v[1] + Cofactor(m, 2, i) * v[2]
                   + Cofactor(m, 3, i) * v[3] + Cofactor(m, 4, i) * v[4]]

\* q = invVP * corners[i]; points[i] = q / q.w.  In the family of Identity
\* and MatMul inverse(vp) * corner is ((corner - t) / s, 1)
getFrustumCorners(vp) ==
  IF IsRows(vp)
  THEN [i \in 1..8 |->
          LET q == InverseTimes(vp.m, <<NdcCorners[i][1], NdcCorners[i][2],
                                        NdcCorners[i][3], 1>>)
          IN [n |-> <<q[1], q[2], q[3]>>, d |-> q[4]]]
  ELSE [i \in 1..8 |-> [n |-> [j \in 1..3 |-> NdcCorners[i][j] - vp.t[j]],
                         d |-> vp.s]]

\* n / d > v and n / d < v
QuotientAbove(n, d, v) == IF d > 0 THEN n > v * d ELSE n < v * d

QuotientBelow(n, d, v) == IF d > 0 THEN n < v * d ELSE n > v * d

BoundingBox(lo, hi) == [min_ |-> lo, max_ |-> hi]

\* the 8 corners of the box, in the order phase 1 visits them
BoxCorners(b) ==
  << <<b.min_[1], b.min_[2], b.min_[3], 1>>, <<b.max_[1], b.min_[2], b.min_[3], 1>>,
     <<b.min_[1], b.max_[2], b.min_[3], 1>>, <<b.max_[1], b.max_[2], b.min_[3], 1>>,
     <<b.min_[1], b.min_[2], b.max_[3], 1>>, <<b.max_[1], b.min_[2], b.max_[3], 1>>,
     <<b.min_[1], b.max_[2], b.max_[3], 1>>, <<b.max_[1], b.max_[2], b.max_[3], 1>> >>

\* phase 1: r == 8 for a plane, all the 8 corners of the box are behind it
OutsidePlane(plane, corners) ==
  \A c \in 1..8 : dot(plane, corners[c]) < 0

\* phase 2 comparing with min_ where max_ is meant
FrustumBeyondMax_AgainstMin(frCorners, j, b) ==
  \A i \in 1..8 : QuotientAbove(frCorners[i].n[j], frCorners[i].d, b.min_[j])

\* phase 2: r == 8 for the axis j, beyond max_ and below min_
FrustumBeyondMax(frCorners, j, b) ==
  \A i \in 1..8 : QuotientAbove(frCorners[i].n[j], frCorners[i].d, b.max_[j])

FrustumBelowMin(frCorners, j, b) ==
  \A i \in 1..8 : QuotientBelow(frCorners[i].n[j], frCorners[i].d, b.min_[j])

\* phase 1 starting at the second plane
isBoxInFrustum_SkipsFirstPlane(frPlanes, frCorners, b) ==
  /\ \A i \in 2..6 : ~OutsidePlane(frPlanes[i], BoxCorners(b))
  /\ \A j \in 1..3 : /\ ~FrustumBeyondMax(frCorners, j, b)
                     /\ ~FrustumBelowMin(frCorners, j, b)

isBoxInFrustum(frPlanes, frCorners, b) ==
  /\ \A i \in 1..6 : ~OutsidePlane(frPlanes[i], BoxCorners(b))
  /\ \A j \in 1..3 : /\ ~FrustumBeyondMax(frCorners, j, b)
                     /\ ~FrustumBelowMin(frCorners, j, b)

Smaller(a, b) == IF a < b THEN a ELSE b

Larger(a, b) == IF a < b THEN b ELSE a

\* BoundingBox::getTransformed: the box around the transformed corners
getTransformed(b, m) ==
  BoundingBox([j \in 1..3 |-> Smaller(m.s * b.min_[j] + m.t[j],
                                      m.s * b.max_[j] + m.t[j])],
              [j \in 1..3 |-> Larger(m.s * b.min_[j] + m.t[j],
                                     m.s * b.max_[j] + m.t[j])])

\* a value-initialized BoundingBox
ZeroBox == BoundingBox(<<0, 0, 0>>, <<0, 0, 0>>)

\* the box of the k-th pair of meshForNode in world space
WorldBox(sc, md, order, k) ==
  getTransformed(md.boxes[sc.meshForNode[order[k]] + 1],
                 sc.globalTransform[order[k] + 1])

\* 1 if the box is visible, else 0
InstanceCount(vp, box) ==
  IF isBoxInFrustum(getFrustumPlanes(vp), getFrustumCorners(vp), box)
  THEN 1 ELSE 0

\* a culling loop that clears the whole command of a culled mesh
cullCPU_ClearsCulled(commands, sc, md, order, vp, stray) ==
  [k \in 1..Len(commands) |->
     IF k <= Len(order) /\ Len(order) <= Len(commands)
     THEN IF InstanceCount(vp, WorldBox(sc, md, order, k)) = 0
          THEN ZeroCommand
          ELSE [commands[k] EXCEPT !.instanceCount = 1]
     ELSE commands[k]]

\* the culling loop on the CPU: the k-th pair of meshForNode sets the
\* instanceCount of the k-th command.  With more pairs than commands the
\* loop writes past the end of the buffer; stray then holds what the
\* commands of the buffer end up with.
cullCPU(commands, sc, md, order, vp, stray) ==
  IF Len(order) > Len(commands)
  THEN [k \in 1..Len(commands) |->
          [commands[k] EXCEPT !.instanceCount = stray[k]]]
  ELSE [k \in 1..Len(commands) |->
          IF k <= Len(order)
          THEN [commands[k] EXCEPT
                  !.instanceCount = InstanceCount(vp, WorldBox(sc, md, order, k))]
          ELSE commands[k]]

RECURSIVE SumInstances(_, _)
SumInstances(commands, k) ==
  IF k = 0 THEN 0 ELSE commands[k].instanceCount + SumInstances(commands, k - 1)

\* the boxes of the nodes in world space, indexed by node
reorderedBoxes(sc, md) ==
  [n \in 1..Len(sc.globalTransform) |->
     IF n - 1 \in DOMAIN sc.meshForNode
     THEN getTransformed(md.boxes[sc.meshForNode[n - 1] + 1],
                         sc.globalTransform[n])
     ELSE ZeroBox]

\* cmdDispatchThreadGroups({ 1 + numMeshesToCull / 64 }): the number of
\* lanes of the dispatch, and the values of gl_GlobalInvocationID.x
NumLanes(n) == 64 * (1 + n \div 64)

Lanes(n) == 0..(NumLanes(n) - 1)

\* the lanes of the compute shader that read outside a buffer
LanesOutOfRange(commands, dd, boxes, numShapesToCull) ==
  {idx \in 0..(Smaller(NumLanes(numShapesToCull), numShapesToCull) - 1) :
     /\ \/ idx >= Len(commands)
        \/ commands[idx + 1].baseInstance >= Len(dd)
        \/ dd[commands[idx + 1].baseInstance + 1].transformId >= Len(boxes)}

\* main() of the compute shader, run by every lane of the dispatch; stray
\* holds what a lane that reads outside a buffer ends up writing
cullGPU(commands, dd, boxes, vp, numShapesToCull, stray) ==
  [k \in 1..Len(commands) |->
     LET idx == k - 1
     IN IF idx < NumLanes(numShapesToCull) /\ idx < numShapesToCull
        THEN IF idx \in DOMAIN stray
             THEN [commands[k] EXCEPT !.instanceCount = stray[idx]]
             ELSE [commands[k] EXCEPT !.instanceCount =
                     InstanceCount(vp,
                       boxes[dd[commands[k].baseInstance + 1].transformId + 1])]
        ELSE commands[k]]

(***************************************************************************)
(* Scene invariants of the data model.                                     *)
(***************************************************************************)
GlobalsConsistent(sc) ==
  \A n \in Nodes(sc) :
    IF H(sc, n).parent = -1
    THEN sc.globalTransform[n + 1] = sc.localTransform[n + 1]
    ELSE sc.globalTransform[n + 1] =
           MatMul(sc.globalTransform[H(sc, n).parent + 1],
                  sc.localTransform[n + 1])

LevelsConsistent(sc) ==
  \A n \in Nodes(sc) :
    IF H(sc, n).parent = -1
    THEN H(sc, n).level = 0
    ELSE /\ H(sc, n).parent \in Nodes(sc)
         /\ H(sc, n).level = H(sc, H(sc, n).parent).level + 1

RefOk(sc, r) == r = -1 \/ r \in Nodes(sc)

\* every cross-reference is "none" or an index into the arrays
RefsInRange(sc) ==
  \A n \in Nodes(sc) :
    /\ RefOk(sc, H(sc, n).parent)
    /\ RefOk(sc, H(sc, n).firstChild)
    /\ RefOk(sc, H(sc, n).nextSibling)
    /\ RefOk(sc, H(sc, n).lastSibling)

RECURSIVE ChainFrom(_, _, _)
\* the nodes met from s along nextSibling, at most fuel of them
ChainFrom(sc, s, fuel) ==
  IF s = -1 \/ fuel = 0 \/ s \notin Nodes(sc) THEN << >>
  ELSE <<s>> \o ChainFrom(sc, H(sc, s).nextSibling, fuel - 1)

\* the children of p as listed by firstChild, nextSibling, ...
ChildChain(sc, p) == ChainFrom(sc, H(sc, p).firstChild, NumNodes(sc) + 1)

\* walking a chain from s reaches "none" without leaving the arrays
ChainEnds(sc, s) ==
  LET c == ChainFrom(sc, s, NumNodes(sc) + 1)
  IN IF c = << >> THEN s = -1
     ELSE Len(c) <= NumNodes(sc) /\ H(sc, c[Len(c)]).nextSibling = -1

ChainsTerminate(sc) ==
  \A n \in Nodes(sc) :
    ChainEnds(sc, H(sc, n).firstChild) /\ ChainEnds(sc, H(sc, n).nextSibling)

\* a well-formed tree: references in range, levels one below the parent,
\* and each child chain lists exactly the nodes with that parent
ValidHierarchy(sc) ==
  /\ RefsInRange(sc)
  /\ LevelsConsistent(sc)
  /\ ChainsTerminate(sc)
  /\ \A n \in Nodes(sc) : H(sc, n).parent < n
  /\ \A p \in Nodes(sc) :
       Range(ChildChain(sc, p)) = {n \in Nodes(sc) : H(sc, n).parent = p}

RECURSIVE InSubtreeOf(_, _, _)
\* n or one of its ancestors is in ids
InSubtreeOf(sc, n, ids) ==
  \/ n \in ids
  \/ /\ H(sc, n).parent \in Nodes(sc)
     /\ H(sc, n).parent < n
     /\ InSubtreeOf(sc, H(sc, n).parent, ids)

\* ids together with all of their descendants
DeleteClosure(sc, ids) == {n \in Nodes(sc) : InSubtreeOf(sc, n, Range(ids))}

ChangedListsEmpty(sc) ==
  \A l \in DOMAIN sc.changedAtThisFrame : sc.changedAtThisFrame[l] = << >>

(***************************************************************************)
(* State.                                                                  *)
(*   scene  the Scene being edited                                         *)
(*   op     the last operation applied, with its arguments                 *)
(*   pre    the scene as it was before the last operation                  *)
(*   frame  the progress of one edit / recalculate frame                   *)
(*   edits  the number of transform edits made so far                      *)
(*   sources    the scenes handed to mergeScenes, each with the number of  *)
(*              meshes of its MeshData                                     *)
(*   mergeArgs  the remaining arguments of mergeScenes                     *)
(*   results    the scenes produced by mergeScenes so far, and the number  *)
(*              of scenes given to the first of two calls                  *)
(*   meshData   the MeshData that goes with the scene                      *)
(*   order      the iteration order of scene.meshForNode                   *)
(*   drawCommands, drawData  the two buffers a VKMesh fills                *)
(*   culling    the view-projection matrix of the frame and the buffers    *)
(*              before and after the culling passes made with it           *)
(*   pass       the position of recalculateGlobalTransforms inside its     *)
(*              loops, the changed lists it started from and the nodes it  *)
(*              has processed so far                                       *)
(***************************************************************************)
VARIABLES scene, op, pre, frame, edits, sources, mergeArgs, results,
          meshData, order, drawCommands, drawData, culling, pass, dispatch,
          frustum, file, textures

vars == <<scene, op, pre, frame, edits, sources, mergeArgs, results,
          meshData, order, drawCommands, drawData, culling, pass, dispatch,
          frustum, file, textures>>

sceneVars == <<scene, op, pre, frame, edits>>

mergeVars == <<sources, mergeArgs, results>>

drawVars == <<meshData, order, drawCommands, drawData, culling>>

stepVars == <<pass, dispatch, frustum, file, textures>>

NoPass == [pc |-> "idle", i |-> 0, k |-> 0, listed |-> NoChanges, log |-> << >>]

\* no box tested against a frustum
NoFrustum == [vp |-> << >>, box |-> << >>, tested |-> FALSE, visible |-> FALSE]

\* no scene file written
NoFile == [words |-> << >>, loaded |-> << >>]

\* VKMesh11Lazy before its loader tasks have started: the mutex is free,
\* loadedTextureData_ is empty and processLoadedTextures has not been called
NoTextures ==
  [mutex |-> "free", loadedTextureData |-> << >>, appended |-> 0,
   tasks |-> {}, loader |-> << >>,
   render |-> [pc |-> "idle", tex |-> << >>],
   calls |-> << >>, textureCache |-> {}, materialsGPU |-> << >>]

\* no compute dispatch in flight
NoDispatch ==
  [running |-> FALSE, pc |-> << >>, numInstances |-> << >>, idle |-> "done",
   numVisibleMeshes |-> 0, before |-> << >>, stray |-> << >>,
   numShapesToCull |-> 0]

NoCulling == [vp |-> << >>, cpu |-> << >>, gpu |-> << >>]

NoDraw ==
  /\ meshData = NoMeshData
  /\ order = << >>
  /\ drawCommands = << >>
  /\ drawData = << >>
  /\ culling = NoCulling
  /\ pass = NoPass
  /\ dispatch = NoDispatch
  /\ frustum = NoFrustum
  /\ file = NoFile
  /\ textures = NoTextures

NoOp == [name |-> "none"]

NoFrame == [stage |-> "none", node |-> -1]

NoMergeArgs ==
  [rootTransforms |-> << >>, mergeMeshes |-> FALSE, mergeMaterials |-> FALSE]

NoResults == [onePass |-> << >>, first |-> << >>, second |-> << >>, split |-> 0]

InitScene ==
  /\ scene = EmptyScene
  /\ op = NoOp
  /\ pre = EmptyScene
  /\ frame = NoFrame
  /\ edits = 0

Init ==
  /\ InitScene
  /\ sources = << >>
  /\ mergeArgs = NoMergeArgs
  /\ results = NoResults
  /\ NoDraw

\* traverse(): the root is added with parent -1 at level 0, every other
\* node below an existing node, one level deeper than it
AddNode ==
  /\ NumNodes(scene) < MaxNodes
  /\ \E parent \in (IF NumNodes(scene) = 0 THEN {-1} ELSE Nodes(scene)) :
       LET level == IF parent = -1 THEN 0 ELSE H(scene, parent).level + 1
           r     == addNode(scene, parent, level)
       IN /\ scene' = r.scene
          /\ op' = [name |-> "addNode", parent |-> parent, level |-> level,
                    node |-> r.node]
  /\ pre' = scene
  /\ frame' = NoFrame
  /\ UNCHANGED edits
  /\ UNCHANGED mergeVars
  /\ UNCHANGED drawVars
  /\ UNCHANGED stepVars

EditTransform ==
  /\ edits < MaxEdits
  /\ \E node \in Nodes(scene), delta \in Deltas :
       /\ scene' = editTransform(scene, node, delta)
       /\ op' = [name |-> "editTransform", node |-> node]
       /\ frame' = IF GlobalsConsistent(scene)
                   THEN [stage |-> "edited", node |-> node]
                   ELSE NoFrame
  /\ pre' = scene
  /\ edits' = edits + 1
  /\ UNCHANGED mergeVars
  /\ UNCHANGED drawVars
  /\ UNCHANGED stepVars

RecalculateGlobalTransforms ==
  /\ NumNodes(scene) > 0
  /\ scene' = recalculateGlobalTransforms(scene)
  /\ op' = [name |-> "recalculateGlobalTransforms"]
  /\ pre' = scene
  /\ frame' = IF frame.stage = "edited"
              THEN [frame EXCEPT !.stage = "recalculated"]
              ELSE NoFrame
  /\ UNCHANGED edits
  /\ UNCHANGED mergeVars
  /\ UNCHANGED drawVars
  /\ UNCHANGED stepVars

Next == AddNode \/ EditTransform \/ RecalculateGlobalTransforms

Spec == Init /\ [][Next]_vars

(***************************************************************************)
(* recalculateGlobalTransforms step by step: the test on level 0, then one *)
(* step per node of the inner loop and one per clear() of the outer loop.  *)
(* pass.i and pass.k are the positions of the two loops, pass.listed the   *)
(* changed lists at the start of the pass, pass.log the nodes processed.   *)
(***************************************************************************)
PassIdle == pass.pc = "idle"

\* what the pass records of a node it has processed
Processed(sc, c, level, from) ==
  [node |-> c, level |-> level, parent |-> H(sc, c).parent, from |-> from,
   local |-> sc.localTransform[c + 1], global |-> sc.globalTransform[c + 1]]

StepAddNode == PassIdle /\ AddNode

StepEditTransform == PassIdle /\ EditTransform

\* if (!changedAtThisFrame[0].empty()) { ... }
RecalcBegin ==
  /\ PassIdle
  /\ NumNodes(scene) > 0
  /\ scene' = RecalcRoot(scene)
  /\ UNCHANGED <<dispatch, frustum, file, textures>>
  /\ pass' = [pc |-> "loop", i |-> 1, k |-> 1,
              listed |-> scene.changedAtThisFrame,
              log |-> IF scene.changedAtThisFrame[0] # << >>
                      THEN <<Processed(scene', scene.changedAtThisFrame[0][1],
                                       0, Identity)>>
                      ELSE << >>]
  /\ pre' = scene
  /\ op' = [name |-> "recalculateGlobalTransforms", at |-> "level 0"]
  /\ UNCHANGED <<frame, edits>>
  /\ UNCHANGED mergeVars
  /\ UNCHANGED drawVars

\* the condition of the outer loop
InLevelLoop ==
  /\ pass.pc = "loop"
  /\ pass.i < MAX_NODE_LEVEL
  /\ scene.changedAtThisFrame[pass.i] # << >>

\* one iteration of the inner loop
RecalcNode ==
  /\ InLevelLoop
  /\ pass.k <= Len(scene.changedAtThisFrame[pass.i])
  /\ LET c == scene.changedAtThisFrame[pass.i][pass.k]
         p == H(scene, c).parent
     IN /\ scene' = RecalcNodes(scene, <<c>>, 1)
        /\ UNCHANGED <<dispatch, frustum, file, textures>>
        /\ pass' = [pass EXCEPT
                      !.k = @ + 1,
                      !.log = Append(@, Processed(scene', c, pass.i,
                                         scene.globalTransform[p + 1]))]
  /\ op' = [name |-> "recalculateGlobalTransforms", at |-> "node"]
  /\ UNCHANGED <<pre, frame, edits>>
  /\ UNCHANGED mergeVars
  /\ UNCHANGED drawVars

\* changedAtThisFrame[i].clear(); i++
RecalcClear ==
  /\ InLevelLoop
  /\ pass.k > Len(scene.changedAtThisFrame[pass.i])
  /\ scene' = [scene EXCEPT !.changedAtThisFrame[pass.i] = << >>]
  /\ UNCHANGED <<dispatch, frustum, file, textures>>
  /\ pass' = [pass EXCEPT !.i = @ + 1, !.k = 1]
  /\ op' = [name |-> "recalculateGlobalTransforms", at |-> "clear"]
  /\ UNCHANGED <<pre, frame, edits>>
  /\ UNCHANGED mergeVars
  /\ UNCHANGED drawVars

\* the outer loop ends and the function returns
RecalcReturn ==
  /\ pass.pc = "loop"
  /\ ~InLevelLoop
  /\ UNCHANGED <<dispatch, frustum, file, textures>>
  /\ pass' = [pass EXCEPT !.pc = "idle"]
  /\ op' = [name |-> "recalculateGlobalTransforms", at |-> "return"]
  /\ frame' = IF frame.stage = "edited"
              THEN [frame EXCEPT !.stage = "recalculated"]
              ELSE NoFrame
  /\ UNCHANGED <<scene, pre, edits>>
  /\ UNCHANGED mergeVars
  /\ UNCHANGED drawVars

NextPass ==
  \/ StepAddNode
  \/ StepEditTransform
  \/ RecalcBegin
  \/ RecalcNode
  \/ RecalcClear
  \/ RecalcReturn

SpecPass == Init /\ [][NextPass]_vars

(***************************************************************************)
(* addNode on its own: any existing node or -1 as the parent, any level up *)
(* to MaxLevel, up to MaxAddNodes nodes.                                   *)
(***************************************************************************)
MaxAddNodes == 4
MaxLevel == 2

AddAnyNode ==
  /\ NumNodes(scene) < MaxAddNodes
  /\ \E parent \in {-1} \cup Nodes(scene), level \in 0..MaxLevel :
       LET r == addNode(scene, parent, level)
       IN /\ scene' = r.scene
          /\ op' = [name |-> "addNode", parent |-> parent, level |-> level,
                    node |-> r.node]
  /\ pre' = scene
  /\ UNCHANGED <<frame, edits>>
  /\ UNCHANGED mergeVars
  /\ UNCHANGED drawVars
  /\ UNCHANGED stepVars

NextAdd == AddAnyNode

SpecAdd == Init /\ [][NextAdd]_vars

(***************************************************************************)
(* Import and deletion.  The asset being imported has NumAssetMeshes       *)
(* meshes; mesh m uses material AssetMaterial(m).                          *)
(***************************************************************************)
NumAssetMeshes == 2

AssetMaterial(m) == m

\* the body of traverse() for one aiNode: a named node with the local
\* transformation of the aiNode and an identity global transformation
traverseNode(sc, parent, atLevel, local) ==
  LET r        == addNode(sc, parent, atLevel)
      stringID == Len(sc.nodeNames)
  IN [r.scene EXCEPT
        !.nodeNames = Append(@, "node"),
        !.nameForNode = MapPut(@, r.node, stringID),
        !.globalTransform[r.node + 1] = Identity,
        !.localTransform[r.node + 1] = local]

\* the body of traverse()'s loop over the meshes of an aiNode: a named
\* sub-node carrying the mesh and its material, with identity transforms
traverseMesh(sc, newNode, atLevel, mesh) ==
  LET r        == addNode(sc, newNode, atLevel + 1)
      stringID == Len(sc.nodeNames)
  IN [r.scene EXCEPT
        !.nodeNames = Append(@, "node_Mesh"),
        !.nameForNode = MapPut(@, r.node, stringID),
        !.meshForNode = MapPut(@, r.node, mesh),
        !.materialForNode = MapPut(@, r.node, AssetMaterial(mesh)),
        !.globalTransform[r.node + 1] = Identity,
        !.localTransform[r.node + 1] = Identity]

\* toMat4(N->mTransformation): the aiNode imported k-th is translated by k
AssetTransform(k) == [s |-> 1, t |-> <<k, 0, 0>>]

\* every imported node adds a name, so the names bound the import
TraverseNode ==
  /\ Len(scene.nodeNames) < MaxNodes
  /\ \E parent \in (IF NumNodes(scene) = 0 THEN {-1} ELSE Nodes(scene)) :
       LET level == IF parent = -1 THEN 0 ELSE H(scene, parent).level + 1
           local == AssetTransform(Len(scene.nodeNames))
       IN /\ scene' = traverseNode(scene, parent, level, local)
          /\ op' = [name |-> "traverseNode", parent |-> parent]
  /\ pre' = EmptyScene
  /\ UNCHANGED <<frame, edits>>
  /\ UNCHANGED mergeVars
  /\ UNCHANGED drawVars
  /\ UNCHANGED stepVars

TraverseMesh ==
  /\ Len(scene.nodeNames) < MaxNodes
  /\ \E newNode \in Nodes(scene), mesh \in 0..(NumAssetMeshes - 1) :
       /\ scene' = traverseMesh(scene, newNode, H(scene, newNode).level, mesh)
       /\ op' = [name |-> "traverseMesh", parent |-> newNode]
  /\ pre' = EmptyScene
  /\ UNCHANGED <<frame, edits>>
  /\ UNCHANGED mergeVars
  /\ UNCHANGED drawVars
  /\ UNCHANGED stepVars

\* the lists of node ids passed to deleteSceneNodes
IdLists(sc) == UNION {[1..k -> Nodes(sc)] : k \in 0..MaxIds}

DeleteSceneNodes ==
  /\ \E ids \in IdLists(scene) :
       \E reads \in PossibleReads(scene, ids) :
         /\ scene' = deleteSceneNodes(scene, ids, reads)
         /\ op' = [name |-> "deleteSceneNodes", ids |-> ids, reads |-> reads]
  /\ pre' = scene
  /\ UNCHANGED <<frame, edits>>
  /\ UNCHANGED mergeVars
  /\ UNCHANGED drawVars
  /\ UNCHANGED stepVars

NextDelete == TraverseNode \/ TraverseMesh \/ DeleteSceneNodes

SpecDelete == Init /\ [][NextDelete]_vars

(***************************************************************************)
(* Merging.  The scenes to merge are imported scenes of at most            *)
(* MaxSourceNodes nodes, MaxSourceTotal nodes in all, each with the        *)
(* material names of its asset.                                            *)
(***************************************************************************)
MaxSourceNodes == 2
MaxScenes == 3
MaxSourceTotal == 5

AssetMaterialNames == <<"material0", "material1">>

\* the scenes one more traverse() step away from the scenes of S
ImportStep(S) ==
  UNION {
    {traverseNode(sc, parent,
                  IF parent = -1 THEN 0 ELSE H(sc, parent).level + 1,
                  AssetTransform(Len(sc.nodeNames)))
       : parent \in (IF NumNodes(sc) = 0 THEN {-1} ELSE Nodes(sc))}
    \cup
    {traverseMesh(sc, x[1], H(sc, x[1]).level, x[2])
       : x \in Nodes(sc) \X (0..(NumAssetMeshes - 1))}
    : sc \in S}

RECURSIVE ImportedScenes(_)
\* the scenes traverse() builds with 1..k nodes
ImportedScenes(k) ==
  IF k = 0 THEN {}
  ELSE IF k = 1 THEN ImportStep({EmptyScene})
       ELSE LET S == ImportedScenes(k - 1) IN S \cup ImportStep(S)

SourceScenes ==
  {[scene |-> [sc EXCEPT !.materialNames = AssetMaterialNames],
    meshCount |-> NumAssetMeshes] : sc \in ImportedScenes(MaxSourceNodes)}

\* the transformation handed over for the root of the idx-th scene
RootTransform(idx) == [s |-> 2, t |-> <<0, idx, 0>>]

RECURSIVE TotalNodes(_, _)
TotalNodes(srcs, k) ==
  IF k = 0 THEN 0 ELSE NumNodes(srcs[k].scene) + TotalNodes(srcs, k - 1)

InitMerge ==
  /\ InitScene
  /\ sources \in {l \in UNION {[1..k -> SourceScenes] : k \in 0..MaxScenes} :
                    TotalNodes(l, Len(l)) <= MaxSourceTotal}
  /\ \E withRoots \in BOOLEAN, mm \in BOOLEAN, mt \in BOOLEAN :
       mergeArgs = [rootTransforms |->
                      IF withRoots
                      THEN [i \in 1..Len(sources) |-> RootTransform(i)]
                      ELSE << >>,
                    mergeMeshes |-> mm, mergeMaterials |-> mt]
  /\ results = NoResults
  /\ NoDraw

ScenesOf(srcs) == [i \in 1..Len(srcs) |-> srcs[i].scene]

MeshCountsOf(srcs) == [i \in 1..Len(srcs) |-> srcs[i].meshCount]

\* mergeScenes(ourScene, scenes, rootTransforms, meshCounts, ...) called on
\* a freshly constructed Scene
MergeCall(srcs, rootTransforms) ==
  mergeScenes(EmptyScene, ScenesOf(srcs), rootTransforms, MeshCountsOf(srcs),
              mergeArgs.mergeMeshes, mergeArgs.mergeMaterials)

RECURSIVE SumCounts(_, _)
SumCounts(srcs, k) == IF k = 0 THEN 0 ELSE srcs[k].meshCount + SumCounts(srcs, k - 1)

\* the size of the MeshData that goes with a merged scene: mergeMeshData
\* concatenates the meshes, shared mesh data keeps the count of the first
MergedMeshCount(srcs) ==
  IF mergeArgs.mergeMeshes THEN SumCounts(srcs, Len(srcs))
  ELSE srcs[1].meshCount

\* all the scenes merged by one call
MergeScenes ==
  /\ results.onePass = << >>
  /\ scene' = MergeCall(sources, mergeArgs.rootTransforms)
  /\ results' = [results EXCEPT !.onePass = <<scene'>>]
  /\ op' = [name |-> "mergeScenes", scenes |-> ScenesOf(sources),
            pass |-> "onePass", split |-> 0]
  /\ pre' = EmptyScene
  /\ UNCHANGED <<frame, edits, sources, mergeArgs>>
  /\ UNCHANGED drawVars
  /\ UNCHANGED stepVars

\* the first k scenes merged by one call ...
MergeFirst ==
  /\ results.first = << >>
  /\ \E k \in 1..(Len(sources) - 1) :
       /\ scene' = MergeCall(SubSeq(sources, 1, k),
                             IF mergeArgs.rootTransforms = << >> THEN << >>
                             ELSE SubSeq(mergeArgs.rootTransforms, 1, k))
       /\ op' = [name |-> "mergeScenes",
                 scenes |-> ScenesOf(SubSeq(sources, 1, k)),
                 pass |-> "first", split |-> k]
       /\ results' = [results EXCEPT !.first = <<scene'>>, !.split = k]
  /\ pre' = EmptyScene
  /\ UNCHANGED <<frame, edits, sources, mergeArgs>>
  /\ UNCHANGED drawVars
  /\ UNCHANGED stepVars

\* ... and that result merged with the remaining scenes by a second call
MergeSecond ==
  /\ results.first # << >>
  /\ results.second = << >>
  /\ LET k    == results.split
         head == [scene |-> results.first[1],
                  meshCount |-> MergedMeshCount(SubSeq(sources, 1, k))]
         rest == SubSeq(sources, k + 1, Len(sources))
     IN /\ scene' = MergeCall(<<head>> \o rest,
                              IF mergeArgs.rootTransforms = << >> THEN << >>
                              ELSE <<Identity>> \o
                                   SubSeq(mergeArgs.rootTransforms, k + 1,
                                          Len(sources)))
        /\ op' = [name |-> "mergeScenes",
                  scenes |-> ScenesOf(<<head>> \o rest),
                  pass |-> "second", split |-> k]
  /\ results' = [results EXCEPT !.second = <<scene'>>]
  /\ pre' = EmptyScene
  /\ UNCHANGED <<frame, edits, sources, mergeArgs>>
  /\ UNCHANGED drawVars
  /\ UNCHANGED stepVars

NextMerge == MergeScenes \/ MergeFirst \/ MergeSecond

SpecMerge == InitMerge /\ [][NextMerge]_vars

(***************************************************************************)
(* Deleting from an imported scene.  The scene is any scene traverse()     *)
(* builds with at most MaxTreeNodes nodes; deleteSceneNodes is called on   *)
(* it once.                                                                *)
(***************************************************************************)
MaxTreeNodes == 4

InitImported ==
  /\ scene \in ImportedScenes(MaxTreeNodes)
  /\ op = NoOp
  /\ pre = EmptyScene
  /\ frame = NoFrame
  /\ edits = 0
  /\ sources = << >>
  /\ mergeArgs = NoMergeArgs
  /\ results = NoResults
  /\ NoDraw

DeleteImported ==
  /\ op = NoOp
  /\ DeleteSceneNodes

NextChains == DeleteImported

SpecChains == InitImported /\ [][NextChains]_vars

(***************************************************************************)
(* Drawing.  The scene and its MeshData are loaded from an asset of up to  *)
(* NumAssetMeshes meshes, or merged from two such scenes; a VKMesh is      *)
(* built from them and its commands are culled on the CPU and on the GPU.  *)
(***************************************************************************)
MaxDrawNodes == 3

\* the mesh descriptor and the box of the m-th mesh of the asset: three
\* indices and four vertices each, a unit box m units along each axis
AssetMesh(m) ==
  [lodCount |-> 1, indexOffset |-> 3 * m, vertexOffset |-> 4 * m,
   vertexCount |-> 4, materialID |-> AssetMaterial(m),
   lodOffset |-> <<3 * m, 3 * m + 3>>]

AssetBox(m) == BoundingBox(<<m, m, m>>, <<m + 1, m + 1, m + 1>>)

AssetMeshData(k) ==
  [meshes |-> [i \in 1..k |-> AssetMesh(i - 1)],
   boxes |-> [i \in 1..k |-> AssetBox(i - 1)],
   numIndices |-> 3 * k,
   numMaterials |-> Len(AssetMaterialNames)]

\* markAsChanged(scene, 0) and the recalculation that follows a load
Refreshed(sc) == recalculateGlobalTransforms(markAsChanged(sc, 0))

\* a scene imported from an asset of k meshes
ImportedLoads ==
  {[scene |-> Refreshed([x[1] EXCEPT !.materialNames = AssetMaterialNames]),
    meshData |-> AssetMeshData(x[2])] :
     x \in {y \in ImportedScenes(MaxDrawNodes) \X (1..NumAssetMeshes) :
              \A m \in Range(y[1].meshForNode) : m < y[2]}}

\* two imported scenes merged into one, the root scaled, with the merged
\* MeshData or with the MeshData the two share
MergedLoads ==
  {[scene |->
      Refreshed([mergeScenes(EmptyScene, <<x[1].scene, x[2].scene>>, << >>,
                             <<x[1].meshCount, x[2].meshCount>>, x[3], x[4])
                   EXCEPT !.localTransform[1] = [s |-> 2, t |-> <<0, 0, 0>>]]),
    meshData |->
      IF x[3]
      THEN mergeMeshData(<<AssetMeshData(x[1].meshCount),
                           AssetMeshData(x[2].meshCount)>>)
      ELSE AssetMeshData(x[1].meshCount)] :
     x \in SourceScenes \X SourceScenes \X BOOLEAN \X BOOLEAN}

\* proj * cullingView
Views ==
  {Identity, [s |-> 1, t |-> <<-3, 0, 0>>], [s |-> -2, t |-> <<1, 0, 0>>]}

InitDraw ==
  /\ \E load \in ImportedLoads \cup MergedLoads :
       /\ scene = load.scene
       /\ meshData = load.meshData
  /\ order \in Orders(DOMAIN scene.meshForNode)
  /\ op = NoOp
  /\ pre = EmptyScene
  /\ frame = NoFrame
  /\ edits = 0
  /\ sources = << >>
  /\ mergeArgs = NoMergeArgs
  /\ results = NoResults
  /\ drawCommands = << >>
  /\ drawData = << >>
  /\ culling = NoCulling
  /\ pass = NoPass
  /\ dispatch = NoDispatch
  /\ frustum = NoFrustum
  /\ file = NoFile
  /\ textures = NoTextures

Built == op.name # "none"

\* the constructor of VKMesh
ConstructVKMesh ==
  /\ \E clobbered \in (IF Len(order) > Len(meshData.meshes)
                       THEN BOOLEAN ELSE {FALSE}) :
       LET r == VKMesh(scene, meshData, order, clobbered)
       IN /\ drawCommands' = r.drawCommands
          /\ drawData' = r.drawData
          /\ op' = [name |-> "VKMesh", clobbered |-> clobbered]
  /\ UNCHANGED <<scene, pre, frame, edits, meshData, order, culling>>
  /\ UNCHANGED mergeVars
  /\ UNCHANGED stepVars

\* the render loop takes the view of the camera
SetView ==
  /\ Built
  /\ \E vp \in Views :
       culling' = [vp |-> <<vp>>, cpu |-> << >>, gpu |-> << >>]
  /\ op' = [name |-> "setView"]
  /\ UNCHANGED <<scene, pre, frame, edits, meshData, order, drawCommands,
                 drawData>>
  /\ UNCHANGED mergeVars
  /\ UNCHANGED stepVars

RECURSIVE VisiblePairs(_, _, _, _, _)
\* numVisibleMeshes += count over the first k pairs
VisiblePairs(sc, md, ord, vp, k) ==
  IF k = 0 THEN 0
  ELSE InstanceCount(vp, WorldBox(sc, md, ord, k))
       + VisiblePairs(sc, md, ord, vp, k - 1)

\* the culling pass on the CPU
CullCPU ==
  /\ Built
  /\ culling.vp # << >>
  /\ \E stray \in (IF Len(order) > Len(drawCommands)
                   THEN [1..Len(drawCommands) -> {0, 1}] ELSE {<< >>}) :
       \E after \in {cullCPU(drawCommands, scene, meshData, order,
                            culling.vp[1], stray)} :
          /\ drawCommands' = after
          /\ culling' = [culling EXCEPT !.cpu =
               <<[before |-> drawCommands, after |-> after,
                  numVisibleMeshes |->
                    VisiblePairs(scene, meshData, order, culling.vp[1],
                                 Len(order))]>>]
  /\ op' = [name |-> "cullCPU"]
  /\ UNCHANGED <<scene, pre, frame, edits, meshData, order, drawData>>
  /\ UNCHANGED mergeVars
  /\ UNCHANGED stepVars

\* CullingData::numMeshesToCull: one lane per object
numMeshesToCull(dd) == Len(dd)

\* the culling pass on the GPU: one dispatch of the compute shader
CullGPU ==
  /\ Built
  /\ culling.vp # << >>
  /\ \E boxes \in {reorderedBoxes(scene, meshData)},
        n \in {numMeshesToCull(drawData)} :
       \E stray \in [LanesOutOfRange(drawCommands, drawData, boxes, n)
                       -> {0, 1}] :
         \E after \in {cullGPU(drawCommands, drawData, boxes, culling.vp[1],
                               n, stray)} :
             /\ drawCommands' = after
             /\ culling' = [culling EXCEPT !.gpu =
                  <<[before |-> drawCommands, after |-> after,
                     numVisibleMeshes |->
                       SumInstances(after, Smaller(n, Len(after)))]>>]
  /\ op' = [name |-> "cullGPU"]
  /\ UNCHANGED <<scene, pre, frame, edits, meshData, order, drawData>>
  /\ UNCHANGED mergeVars
  /\ UNCHANGED stepVars

NextDraw == ConstructVKMesh \/ SetView \/ CullCPU \/ CullGPU

SpecDraw == InitDraw /\ [][NextDraw]_vars

(***************************************************************************)
(* Culling, the compute dispatch lane by lane.  The scene is an imported   *)
(* scene of at most MaxCullNodes nodes.  Every lane of the dispatch runs   *)
(* main(): it reads its command and its box, writes instanceCount, adds to *)
(* the counter; the lanes run in any order.  The lanes at and above        *)
(* numShapesToCull fail the test of main() and return.                     *)
(***************************************************************************)
MaxCullNodes == 3

CullLoads ==
  {[scene |-> Refreshed([x[1] EXCEPT !.materialNames = AssetMaterialNames]),
    meshData |-> AssetMeshData(x[2])] :
     x \in {y \in ImportedScenes(MaxCullNodes) \X (1..NumAssetMeshes) :
              \A m \in Range(y[1].meshForNode) : m < y[2]}}

InitCull ==
  /\ \E load \in CullLoads :
       /\ scene = load.scene
       /\ meshData = load.meshData
  /\ order \in Orders(DOMAIN scene.meshForNode)
  /\ op = NoOp
  /\ pre = EmptyScene
  /\ frame = NoFrame
  /\ edits = 0
  /\ sources = << >>
  /\ mergeArgs = NoMergeArgs
  /\ results = NoResults
  /\ drawCommands = << >>
  /\ drawData = << >>
  /\ culling = NoCulling
  /\ pass = NoPass
  /\ dispatch = NoDispatch
  /\ frustum = NoFrustum
  /\ file = NoFile
  /\ textures = NoTextures

DispatchIdle == ~dispatch.running

CullConstruct == DispatchIdle /\ op = NoOp /\ ConstructVKMesh

CullSetView == DispatchIdle /\ SetView

\* a frame of the render loop takes the view and culls by cullingMode, on
\* the CPU or on the GPU
NotCulledYet == culling.cpu = << >> /\ culling.gpu = << >>

CullOnCPU == DispatchIdle /\ NotCulledYet /\ CullCPU

\* the lanes that pass the test idx < frustum.numShapesToCull
ActiveLanes(n) == 0..(Smaller(NumLanes(n), n) - 1)

\* uint numInstances = isAABBinFrustum(box) ? 1 : 0, for the lane idx
LaneInstances(commands, dd, boxes, vp, stray, idx) ==
  IF idx \in DOMAIN stray THEN stray[idx]
  ELSE InstanceCount(vp,
         boxes[dd[commands[idx + 1].baseInstance + 1].transformId + 1])

\* a store to the wrong slot
WriteInstanceCount_NextSlot(commands, idx, numInstances) ==
  [commands EXCEPT ![((idx + 1) % Len(commands)) + 1].instanceCount =
                      numInstances]

\* commands.dc[idx].instanceCount = numInstances
WriteInstanceCount(commands, idx, numInstances) ==
  IF idx < Len(commands)
  THEN [commands EXCEPT ![idx + 1].instanceCount = numInstances]
  ELSE commands

\* an add that overwrites
atomicAdd_Store(mem, data) == data

\* atomicAdd(mem, data): the new value of mem
atomicAdd(mem, data) == mem + data

\* cmdUpdateBuffer(bufferCullingData, cullingData) and
\* cmdDispatchThreadGroups: the counter is uploaded as 0, the lanes start
Dispatch ==
  /\ DispatchIdle
  /\ Built
  /\ culling.vp # << >>
  /\ NotCulledYet
  /\ \E n \in {numMeshesToCull(drawData)} :
       \E stray \in [LanesOutOfRange(drawCommands, drawData,
                                     reorderedBoxes(scene, meshData), n)
                       -> {0, 1}] :
         dispatch' = [running |-> TRUE,
                      pc |-> [idx \in ActiveLanes(n) |-> "start"],
                      numInstances |-> [idx \in ActiveLanes(n) |-> 0],
                      idle |-> "start",
                      numVisibleMeshes |-> 0,
                      before |-> drawCommands,
                      stray |-> stray,
                      numShapesToCull |-> n]
  /\ op' = [name |-> "dispatch"]
  /\ UNCHANGED <<scene, pre, frame, edits, pass, frustum, file, textures>>
  /\ UNCHANGED mergeVars
  /\ UNCHANGED drawVars

\* main() up to the computation of numInstances
LaneRead ==
  /\ dispatch.running
  /\ \E idx \in DOMAIN dispatch.pc :
       /\ dispatch.pc[idx] = "start"
       /\ dispatch' =
            [dispatch EXCEPT
               !.pc[idx] = "write",
               !.numInstances[idx] =
                  LaneInstances(drawCommands, drawData,
                                reorderedBoxes(scene, meshData),
                                culling.vp[1], dispatch.stray, idx)]
  /\ UNCHANGED <<scene, op, pre, frame, edits, pass, frustum, file, textures>>
  /\ UNCHANGED mergeVars
  /\ UNCHANGED drawVars

\* commands.dc[idx].instanceCount = numInstances
LaneWrite ==
  /\ dispatch.running
  /\ \E idx \in DOMAIN dispatch.pc :
       /\ dispatch.pc[idx] = "write"
       /\ drawCommands' = WriteInstanceCount(drawCommands, idx,
                                             dispatch.numInstances[idx])
       /\ dispatch' = [dispatch EXCEPT !.pc[idx] = "add"]
  /\ UNCHANGED <<scene, op, pre, frame, edits, pass, frustum, file, textures>>
  /\ UNCHANGED mergeVars
  /\ UNCHANGED <<meshData, order, drawData, culling>>

\* atomicAdd(frustum.numVisibleMeshes, numInstances)
LaneAdd ==
  /\ dispatch.running
  /\ \E idx \in DOMAIN dispatch.pc :
       /\ dispatch.pc[idx] = "add"
       /\ dispatch' =
            [dispatch EXCEPT
               !.pc[idx] = "done",
               !.numVisibleMeshes =
                  atomicAdd(@, dispatch.numInstances[idx])]
  /\ UNCHANGED <<scene, op, pre, frame, edits, pass, frustum, file, textures>>
  /\ UNCHANGED mergeVars
  /\ UNCHANGED drawVars

\* the lanes with idx >= numShapesToCull: main() does nothing
IdleLanesReturn ==
  /\ dispatch.running
  /\ dispatch.idle = "start"
  /\ dispatch' = [dispatch EXCEPT !.idle = "done"]
  /\ UNCHANGED <<scene, op, pre, frame, edits, pass, frustum, file, textures>>
  /\ UNCHANGED mergeVars
  /\ UNCHANGED drawVars

AllLanesDone ==
  /\ dispatch.idle = "done"
  /\ \A idx \in DOMAIN dispatch.pc : dispatch.pc[idx] = "done"

\* ctx->wait(submitHandle) and the download of numVisibleMeshes
Readback ==
  /\ dispatch.running
  /\ AllLanesDone
  /\ dispatch' = NoDispatch
  /\ culling' = [culling EXCEPT !.gpu =
                   <<[before |-> dispatch.before, after |-> drawCommands,
                      numVisibleMeshes |-> dispatch.numVisibleMeshes]>>]
  /\ op' = [name |-> "cullGPU"]
  /\ UNCHANGED <<scene, pre, frame, edits, pass, frustum, file, textures>>
  /\ UNCHANGED mergeVars
  /\ UNCHANGED <<meshData, order, drawCommands, drawData>>

NextCull ==
  \/ CullConstruct
  \/ CullSetView
  \/ CullOnCPU
  \/ Dispatch
  \/ LaneRead
  \/ LaneWrite
  \/ LaneAdd
  \/ IdleLanesReturn
  \/ Readback

SpecCull == InitCull /\ [][NextCull]_vars

(***************************************************************************)
(* isBoxInFrustum on its own.  The view-projection matrix is one of        *)
(* FrustumViews, the box any box with corners at integers up to MaxCoord,  *)
(* or the box of 1000 units around the origin.                             *)
(***************************************************************************)
MaxCoord == 3

\* a perspective projection with the camera at the origin looking down -z,
\* 90 degrees wide, the near plane at z = -1 and the far plane at z = -3
PerspectiveView ==
  [m |-> << <<1, 0, 0, 0>>, <<0, 1, 0, 0>>, <<0, 0, -2, -3>>, <<0, 0, -1, 0>> >>]

\* the same projection with the camera at z = 4 looking up +z: the near
\* plane is at z = 5, the far plane at z = 7
NearAtFiveView ==
  [m |-> << <<-1, 0, 0, 0>>, <<0, 1, 0, 0>>, <<0, 0, 2, -11>>, <<0, 0, 1, -4>> >>]

FrustumViews == {PerspectiveView, NearAtFiveView} \cup Views

Ranges == {r \in (-MaxCoord..MaxCoord) \X (-MaxCoord..MaxCoord) : r[1] <= r[2]}

FarBox == BoundingBox(<<-1000, -1000, -1000>>, <<1000, 1000, 1000>>)

\* the boxes tested: any extent along x and z, along y one of the two
Boxes ==
  {FarBox} \cup
  {BoundingBox(<<x[1][1], x[3][1], x[2][1]>>, <<x[1][2], x[3][2], x[2][2]>>) :
     x \in {y \in Ranges \X Ranges \X Ranges : y[3] = y[1] \/ y[3] = y[2]}}

InitFrustum ==
  /\ InitScene
  /\ sources = << >>
  /\ mergeArgs = NoMergeArgs
  /\ results = NoResults
  /\ meshData = NoMeshData
  /\ order = << >>
  /\ drawCommands = << >>
  /\ drawData = << >>
  /\ culling = NoCulling
  /\ pass = NoPass
  /\ dispatch = NoDispatch
  /\ file = NoFile
  /\ textures = NoTextures
  /\ \E vp \in FrustumViews, b \in Boxes :
       frustum = [vp |-> vp, box |-> b, tested |-> FALSE, visible |-> FALSE]

\* getFrustumPlanes, getFrustumCorners and isBoxInFrustum as the render
\* loop calls them
TestBox ==
  /\ ~frustum.tested
  /\ frustum' = [frustum EXCEPT
                   !.tested = TRUE,
                   !.visible = isBoxInFrustum(getFrustumPlanes(frustum.vp),
                                              getFrustumCorners(frustum.vp),
                                              frustum.box)]
  /\ UNCHANGED <<pass, dispatch, file, textures>>
  /\ UNCHANGED sceneVars
  /\ UNCHANGED mergeVars
  /\ UNCHANGED drawVars

NextFrustum == TestBox

SpecFrustum == InitFrustum /\ [][NextFrustum]_vars

(***************************************************************************)
(* Claims about transform propagation.                                     *)
(***************************************************************************)

\* C1: starting from a scene whose global transforms are consistent, after
\* the local transform of one node is changed, the node is marked as changed
\* and the global transforms are recalculated once, every node again has
\* Global = Global[parent] * Local, and the root has Global = Local.
C1_GlobalsRestored ==
  frame.stage = "recalculated" => GlobalsConsistent(scene)

(***************************************************************************)
(* Claims about deleteSceneNodes.  op holds the arguments of the call and  *)
(* pre the scene it was applied to.                                        *)
(***************************************************************************)
Deleted == op.name = "deleteSceneNodes" /\ ValidHierarchy(pre)

\* C2: deleteSceneNodes removes exactly the listed nodes and all of their
\* descendants: a node is kept iff neither it nor any of its ancestors is
\* listed, and the node count drops by the size of that set.
C2_DeletesExactlySubtrees ==
  Deleted =>
    /\ Range(KeptNodes(pre, op.ids, op.reads))
         = Nodes(pre) \ DeleteClosure(pre, op.ids)
    /\ NumNodes(scene)
         = NumNodes(pre) - Cardinality(DeleteClosure(pre, op.ids))

\* C3: after deleteSceneNodes on a valid scene every cross-reference is -1
\* or an index of the compacted arrays, every kept node that had a parent
\* still has one, and every child and sibling chain ends in -1.
C3_NoDanglingReferences ==
  Deleted =>
    /\ RefsInRange(scene)
    /\ ChainsTerminate(scene)
    /\ LET kept == KeptNodes(pre, op.ids, op.reads)
       IN \A i \in 1..Len(kept) :
            H(pre, kept[i]).parent # -1 => H(scene, i - 1).parent # -1

\* C4: after deleteSceneNodes on a scene with consistent levels every kept
\* node has the level it had before, so the levels are still consistent.
C4_LevelsKept ==
  Deleted =>
    /\ LET kept == KeptNodes(pre, op.ids, op.reads)
       IN \A i \in 1..Len(kept) :
            H(scene, i - 1).level = H(pre, kept[i]).level
    /\ LevelsConsistent(scene)

(***************************************************************************)
(* Claims about mergeScenes.                                               *)
(***************************************************************************)
ArraysAligned(sc) ==
  /\ Len(sc.localTransform) = Len(sc.hierarchy)
  /\ Len(sc.globalTransform) = Len(sc.hierarchy)

\* C5: after mergeScenes on any list of scenes, the empty list included,
\* every parent, firstChild, nextSibling and lastSibling of the result is
\* -1 or an index into its hierarchy array, and the hierarchy and the two
\* transform arrays have the same length.
C5_MergedReferencesValid ==
  op.name = "mergeScenes" => RefsInRange(scene) /\ ArraysAligned(scene)

\* a reference moved one node further
ShiftRef(r) == IF r > -1 THEN r + 1 ELSE r

\* the index, in the scene merged by one call, of the root of the first
\* scene that the second of two calls adds
SecondStart == 1 + TotalNodes(sources, results.split)

\* T is P with one node more, node 1, the root made by the first of the two
\* calls: it hangs below the root, the nodes before b hang below it one
\* level deeper, the nodes from b on stay where they were
OnePassPlusInnerRoot(P, T, b) ==
  /\ NumNodes(T) = NumNodes(P) + 1
  /\ ArraysAligned(T)
  /\ H(T, 0) = H(P, 0)
  /\ H(T, 1) = Hierarchy(0, 2, IF b < NumNodes(P) THEN b + 1 ELSE -1, -1, 1)
  /\ T.localTransform[1] = P.localTransform[1]
  /\ T.globalTransform[1] = P.globalTransform[1]
  /\ T.localTransform[2] = Identity
  /\ T.globalTransform[2] = Identity
  /\ \A i \in 1..(NumNodes(P) - 1) :
       LET p       == H(P, i)
           t       == H(T, i + 1)
           inFirst == i < b
       IN /\ t.level = IF inFirst THEN p.level + 1 ELSE p.level
          /\ t.parent = IF p.parent = 0
                        THEN (IF inFirst THEN 1 ELSE 0)
                        ELSE ShiftRef(p.parent)
          /\ t.firstChild = ShiftRef(p.firstChild)
          /\ t.lastSibling = ShiftRef(p.lastSibling)
          /\ t.nextSibling = IF inFirst /\ p.nextSibling = b
                             THEN -1
                             ELSE ShiftRef(p.nextSibling)
          /\ T.localTransform[i + 2] = P.localTransform[i + 1]
          /\ T.globalTransform[i + 2] = P.globalTransform[i + 1]
  /\ DOMAIN T.meshForNode = {i + 1 : i \in DOMAIN P.meshForNode}
  /\ \A i \in DOMAIN P.meshForNode : T.meshForNode[i + 1] = P.meshForNode[i]
  /\ DOMAIN T.materialForNode = {i + 1 : i \in DOMAIN P.materialForNode}
  /\ \A i \in DOMAIN P.materialForNode :
       T.materialForNode[i + 1] = P.materialForNode[i]
  /\ T.materialNames = P.materialNames
  /\ DOMAIN T.nameForNode = {0} \cup {i + 1 : i \in DOMAIN P.nameForNode}
  /\ T.nodeNames[T.nameForNode[0] + 1] = "NewRoot"
  /\ \A i \in DOMAIN P.nameForNode :
       T.nodeNames[T.nameForNode[i + 1] + 1] = P.nodeNames[P.nameForNode[i] + 1]

BothMerged == results.onePass # << >> /\ results.second # << >>

\* C6 as claimed: merging the first scenes and then merging that result with
\* the remaining scenes gives the same scene (hierarchy records and levels,
\* transforms, sparse maps) as merging all the scenes by one call.
C6_TwoStepEqualsOnePass ==
  BothMerged => results.second = results.onePass

\* C6 as amended: the scene merged in two steps is the scene merged by one
\* call with one node more, the root made by the first step, inserted as
\* node 1 below the new root: every other node comes one index later with
\* the same transforms, mesh, material and name, the nodes of the first
\* step one level deeper below node 1, the nodes of the second step at
\* their level below node 0.
C6_TwoStepIsOnePassPlusInnerRoot ==
  BothMerged =>
    OnePassPlusInnerRoot(results.onePass[1], results.second[1], SecondStart)

\* two scenes merged first and a third one after, with a mesh among them
C6_Witness ==
  /\ BothMerged
  /\ Len(sources) = 3
  /\ results.split = 2
  /\ DOMAIN results.second[1].meshForNode # {}
  /\ mergeArgs.rootTransforms # << >>
  /\ \E i \in 1..2 : NumNodes(sources[i].scene) > 1
  /\ OnePassPlusInnerRoot(results.onePass[1], results.second[1], SecondStart)

\* C7: after recalculateGlobalTransforms returns, the changed list of every
\* depth level is empty.
C7_ListsCleared ==
  op.name = "recalculateGlobalTransforms" => ChangedListsEmpty(scene)

(***************************************************************************)
(* Claims about the draw commands and the culling passes.                  *)
(***************************************************************************)
NumPairs == Cardinality(DOMAIN scene.meshForNode)

\* C8: the constructor leaves drawCommands and drawData of equal length
\* with exactly one entry per (node, mesh) pair of meshForNode: the entry at
\* position i has instanceCount 1, baseInstance i, the index count, first
\* index and vertex offset of the mesh of the pair, and the node of the pair
\* as transformId.
C8_OneEntryPerPair ==
  op.name = "VKMesh" =>
    /\ Len(drawCommands) = Len(drawData)
    /\ Len(drawCommands) = NumPairs
    /\ \A k \in 1..NumPairs :
         LET mesh == meshData.meshes[scene.meshForNode[order[k]] + 1]
         IN /\ drawCommands[k].instanceCount = 1
            /\ drawCommands[k].baseInstance = k - 1
            /\ drawCommands[k].count = getLODIndicesCount(mesh, 0)
            /\ drawCommands[k].firstIndex = mesh.indexOffset
            /\ drawCommands[k].baseVertex = mesh.vertexOffset
            /\ drawData[k].transformId = order[k]

\* C9: for every command the constructor writes for a node n, the draw data
\* at the baseInstance of the command has the material materialForNode[n].
C9_MaterialOfNode ==
  (op.name = "VKMesh" /\ ~op.clobbered) =>
    \A k \in 1..Smaller(NumPairs, Len(drawCommands)) :
      drawData[drawCommands[k].baseInstance + 1].materialId
        = scene.materialForNode[order[k]]

InstanceCounts(commands) ==
  [k \in 1..Len(commands) |-> commands[k].instanceCount]

\* C10: with the same view-projection matrix, scene and draw-command
\* buffer, the culling pass on the GPU and the culling loop on the CPU set
\* the same instanceCount on every draw command.
C10_GpuMatchesCpu ==
  (/\ culling.cpu # << >>
   /\ culling.gpu # << >>
   /\ culling.cpu[1].before = culling.gpu[1].before)
  => InstanceCounts(culling.cpu[1].after) = InstanceCounts(culling.gpu[1].after)

(***************************************************************************)
(* Claims about the order of one recalculateGlobalTransforms pass.         *)
(***************************************************************************)
\* the node n has an entry in the log before position b
ProcessedBefore(log, b, n) == \E a \in 1..(b - 1) : log[a].node = n

\* the global transform last written to n before position b
LastWritten(log, b, n) ==
  log[CHOOSE a \in 1..(b - 1) :
        /\ log[a].node = n
        /\ \A a2 \in (a + 1)..(b - 1) : log[a2].node # n].global

\* the steps taken agree with the function as a whole
PassIsTheFunction ==
  (op.name = "recalculateGlobalTransforms" /\ op.at = "return")
    => scene = recalculateGlobalTransforms(pre)

RECURSIVE RootOffset(_, _)
\* the index, in the merged scene, of node 0 of the idx-th merged scene
RootOffset(scenes, idx) ==
  IF idx = 1 THEN 1
  ELSE RootOffset(scenes, idx - 1) + Len(scenes[idx - 1].hierarchy)

\* the former roots in the order of the scenes
FormerRoots(scenes) == [idx \in 1..Len(scenes) |-> RootOffset(scenes, idx)]

MergedSome == op.name = "mergeScenes" /\ Len(op.scenes) >= 1

\* C12: after mergeScenes over one or more non-empty single-rooted scenes
\* the result has one node more than the scenes together, node 0 is the new
\* root at level 0, its child chain is exactly the former roots in the order
\* of the scenes, and each former root has parent 0 and level 1.
C12_RootsUnderNewRoot ==
  MergedSome =>
    /\ NumNodes(scene) = RootOffset(op.scenes, Len(op.scenes))
                           + Len(op.scenes[Len(op.scenes)].hierarchy)
    /\ H(scene, 0).level = 0
    /\ H(scene, 0).parent = -1
    /\ ChildChain(scene, 0) = FormerRoots(op.scenes)
    /\ ChainEnds(scene, H(scene, 0).firstChild)
    /\ \A idx \in 1..Len(op.scenes) :
         /\ H(scene, RootOffset(op.scenes, idx)).parent = 0
         /\ H(scene, RootOffset(op.scenes, idx)).level = 1

\* three scenes merged by one call, one of them with more than its root
C12_Witness ==
  /\ MergedSome
  /\ op.pass = "onePass"
  /\ Len(op.scenes) = 3
  /\ Len(op.scenes[2].hierarchy) > 1
  /\ ChildChain(scene, 0) = <<1, 1 + Len(op.scenes[1].hierarchy),
                              1 + Len(op.scenes[1].hierarchy)
                                + Len(op.scenes[2].hierarchy)>>

\* a reference of a source scene as it reads in the merged scene
MovedRef(r, offset) == IF r >= 0 THEN r + offset ELSE r

NewIndexOf(kept, n) == (CHOOSE i \in 1..Len(kept) : kept[i] = n) - 1

\* the kept nodes of a chain, in the order of the chain, by their new index
SurvivorsOf(chain, kept) ==
  LET left == SelectSeq(chain, LAMBDA n : n \in Range(kept))
  IN [j \in 1..Len(left) |-> NewIndexOf(kept, left[j])]

\* C14: after deleteSceneNodes the child chain of every kept parent lists
\* exactly its kept former children in their original order and ends at -1
\* (the middle one of three siblings deleted, the first one's nextSibling
\* is the third; a first child deleted, the next kept sibling is the
\* firstChild).
C14_ChainsKeepSurvivors ==
  Deleted =>
    LET kept == KeptNodes(pre, op.ids, op.reads)
    IN \A i \in 1..Len(kept) :
         /\ ChildChain(scene, i - 1) = SurvivorsOf(ChildChain(pre, kept[i]), kept)
         /\ ChainEnds(scene, H(scene, i - 1).firstChild)

\* the middle one of three siblings deleted
C14_Witness ==
  /\ Deleted
  /\ \E p \in Nodes(pre) :
       LET c == ChildChain(pre, p)
           kept == KeptNodes(pre, op.ids, op.reads)
       IN /\ Len(c) = 3
          /\ {p, c[1], c[3]} \subseteq Range(kept)
          /\ c[2] \notin Range(kept)
          /\ H(scene, NewIndexOf(kept, c[1])).nextSibling = NewIndexOf(kept, c[3])
          /\ H(scene, NewIndexOf(kept, c[3])).nextSibling = -1

\* a first child deleted
C14_FirstChildDeleted ==
  /\ Deleted
  /\ \E p \in Nodes(pre) :
       LET c == ChildChain(pre, p)
           kept == KeptNodes(pre, op.ids, op.reads)
       IN /\ Len(c) >= 2
          /\ {p, c[2]} \subseteq Range(kept)
          /\ c[1] \notin Range(kept)
          /\ H(scene, NewIndexOf(kept, p)).firstChild = NewIndexOf(kept, c[2])


(***************************************************************************)
(* Claims about addNode.                                                   *)
(***************************************************************************)
\* the nodes added with parent p, in the order they were added: addNode
\* numbers the nodes in that order
AddedWithParent(sc, p) ==
  SelectSeq(Iota(NumNodes(sc)), LAMBDA n : H(sc, n).parent = p)

\* C15: after any sequence of addNode calls, the walk from a node's
\* firstChild along nextSibling visits exactly the nodes added with that
\* node as the parent, in the order they were added, and ends at -1.
C15_ChainInOrderAdded ==
  \A p \in Nodes(scene) :
    /\ ChildChain(scene, p) = AddedWithParent(scene, p)
    /\ ChainEnds(scene, H(scene, p).firstChild)

\* three children added to one parent, the last one after a node added
\* elsewhere
C15_Witness ==
  /\ op.name = "addNode"
  /\ NumNodes(scene) = 4
  /\ ChildChain(scene, 0) = <<1, 3>>
  /\ ChildChain(scene, 1) = <<2>>

\* C16: addNode returns the length the arrays had before the call; after it
\* the hierarchy and the two transform arrays have the same length, one
\* more than before, and the new node has identity local and global
\* transforms, firstChild = nextSibling = -1, and the parent and the level
\* that were passed.
C16_NewNodeRecord ==
  op.name = "addNode" =>
    /\ op.node = Len(pre.hierarchy)
    /\ Len(scene.hierarchy) = Len(pre.hierarchy) + 1
    /\ ArraysAligned(scene)
    /\ scene.localTransform[op.node + 1] = Identity
    /\ scene.globalTransform[op.node + 1] = Identity
    /\ H(scene, op.node).firstChild = -1
    /\ H(scene, op.node).nextSibling = -1
    /\ H(scene, op.node).parent = op.parent
    /\ H(scene, op.node).level = op.level

\* a node added below a parent that has a child, at a level that is not
\* the parent's level plus one
C16_Witness ==
  /\ op.name = "addNode"
  /\ op.parent > -1
  /\ H(pre, op.parent).firstChild > -1
  /\ op.level = 2
  /\ H(pre, op.parent).level = 2
  /\ H(scene, op.node).level = 2


(***************************************************************************)
(* Claims about the culling passes.                                        *)
(***************************************************************************)
\* the record of the culling pass that ran last
LastPass == IF op.name = "cullCPU" THEN culling.cpu[1] ELSE culling.gpu[1]

Culled == op.name = "cullCPU" \/ op.name = "cullGPU"

\* C17: a culling pass, on the CPU or on the GPU, changes nothing of the
\* draw commands but instanceCount fields, each 0 or 1 after the pass: the
\* number of slots and every count, firstIndex, baseVertex and baseInstance
\* are as before.
C17_OnlyInstanceCount ==
  Culled =>
    /\ drawCommands = LastPass.after
    /\ Len(LastPass.after) = Len(LastPass.before)
    /\ \A k \in 1..Len(LastPass.before) :
         /\ LastPass.after[k].count = LastPass.before[k].count
         /\ LastPass.after[k].firstIndex = LastPass.before[k].firstIndex
         /\ LastPass.after[k].baseVertex = LastPass.before[k].baseVertex
         /\ LastPass.after[k].baseInstance = LastPass.before[k].baseInstance
         /\ LastPass.after[k].instanceCount \in {0, 1}

\* a pass over two commands with different fields that culls one of them
\* and keeps the other
C17_Witness ==
  /\ Culled
  /\ Len(LastPass.before) >= 2
  /\ Len(order) = Len(LastPass.before)
  /\ \E j, k \in 1..Len(LastPass.before) :
       /\ LastPass.before[j].instanceCount = 1
       /\ LastPass.after[j].instanceCount = 0
       /\ LastPass.after[k].instanceCount = 1
       /\ LastPass.after[k].baseInstance > 0
       /\ LastPass.after[k].count > 0


\* the number of commands that draw
NumVisible(commands) ==
  Cardinality({k \in 1..Len(commands) : commands[k].instanceCount = 1})

\* C20: with the lanes of the culling pass run in any interleaving, a
\* command differs from what it was before the pass only once its own lane
\* has written, and only in instanceCount; once all lanes have finished the
\* commands are those of the pass run as a whole, whatever the
\* interleaving was, and the counter of the atomic adds is the number of
\* commands with instanceCount 1.
C20_LanesIndependent ==
  dispatch.running =>
    /\ Len(drawCommands) = Len(dispatch.before)
    /\ \A k \in 1..Len(drawCommands) :
         drawCommands[k] =
           IF k - 1 \in DOMAIN dispatch.pc
              /\ dispatch.pc[k - 1] \in {"add", "done"}
           THEN [dispatch.before[k] EXCEPT
                   !.instanceCount = dispatch.numInstances[k - 1]]
           ELSE dispatch.before[k]
    /\ AllLanesDone =>
         /\ drawCommands =
              cullGPU(dispatch.before, drawData,
                      reorderedBoxes(scene, meshData), culling.vp[1],
                      dispatch.numShapesToCull, dispatch.stray)
         /\ dispatch.numVisibleMeshes = NumVisible(drawCommands)

\* all lanes have finished, two of them with a write each, one command
\* culled and one drawn
C20_Witness ==
  /\ dispatch.running
  /\ AllLanesDone
  /\ Cardinality(DOMAIN dispatch.pc) >= 2
  /\ dispatch.numVisibleMeshes = 1
  /\ \E k \in 1..Len(drawCommands) :
       /\ dispatch.before[k].instanceCount = 1
       /\ drawCommands[k].instanceCount = 0

\* a later lane has written while an earlier lane has not started
C20_OutOfOrder ==
  /\ dispatch.running
  /\ Cardinality(DOMAIN dispatch.pc) >= 2
  /\ dispatch.pc[0] = "start"
  /\ dispatch.pc[1] = "done"
  /\ dispatch.numVisibleMeshes = 1


(***************************************************************************)
(* Claims about isBoxInFrustum.                                            *)
(***************************************************************************)
\* the corners of the box as points
CornerPoints(b) ==
  {<<x, y, z>> : x \in {b.min_[1], b.max_[1]}, y \in {b.min_[2], b.max_[2]},
                 z \in {b.min_[3], b.max_[3]}}

\* the point is on the negative side of the plane
Behind(plane, pt) ==
  plane[1] * pt[1] + plane[2] * pt[2] + plane[3] * pt[3] + plane[4] < 0

\* the planes of the frustum that have the whole box behind them
PlanesHiding(vp, b) ==
  {i \in 1..6 : \A pt \in CornerPoints(b) : Behind(getFrustumPlanes(vp)[i], pt)}

\* C18: isBoxInFrustum reports not visible for every box all of whose 8
\* corners are on the negative side of at least one of the 6 planes of the
\* frustum (the box [0,0,0]-[1,1,1] behind a near plane at z = 5 is not
\* visible).
C18_OutsideIsCulled ==
  (frustum.tested /\ PlanesHiding(frustum.vp, frustum.box) # {})
    => ~frustum.visible

\* the box [0,0,0]-[1,1,1] behind the near plane z = 5
C18_Witness ==
  /\ frustum.tested
  /\ frustum.vp = NearAtFiveView
  /\ frustum.box = BoundingBox(<<0, 0, 0>>, <<1, 1, 1>>)
  /\ 5 \in PlanesHiding(frustum.vp, frustum.box)
  /\ ~frustum.visible

\* a box behind the left plane alone of the perspective frustum, between
\* the leftmost and the rightmost corner of the frustum
C18_BehindSlantedPlane ==
  /\ frustum.tested
  /\ frustum.vp = PerspectiveView
  /\ PlanesHiding(frustum.vp, frustum.box) = {1}
  /\ \A j \in 1..3 :
       /\ ~FrustumBeyondMax(getFrustumCorners(frustum.vp), j, frustum.box)
       /\ ~FrustumBelowMin(getFrustumCorners(frustum.vp), j, frustum.box)
  /\ ~frustum.visible

\* the box contains the 8 corners of the frustum: n / d is between min_
\* and max_ on every axis
ContainsFrustum(vp, b) ==
  \A i \in 1..8 : \A j \in 1..3 :
    LET q == getFrustumCorners(vp)[i]
    IN IF q.d > 0
       THEN b.min_[j] * q.d <= q.n[j] /\ q.n[j] <= b.max_[j] * q.d
       ELSE b.min_[j] * q.d >= q.n[j] /\ q.n[j] >= b.max_[j] * q.d

\* C19: isBoxInFrustum reports visible for every box that contains all 8
\* corners of the frustum, the planes and the corners taken from the same
\* view-projection matrix.
C19_ContainingIsVisible ==
  (frustum.tested /\ ContainsFrustum(frustum.vp, frustum.box))
    => frustum.visible

\* the box of 1000 units around the perspective frustum
C19_Witness ==
  /\ frustum.tested
  /\ frustum.vp = PerspectiveView
  /\ frustum.box = FarBox
  /\ ContainsFrustum(frustum.vp, frustum.box)
  /\ frustum.visible

\* a box that just contains the perspective frustum
C19_TightBox ==
  /\ frustum.tested
  /\ frustum.vp = PerspectiveView
  /\ frustum.box = BoundingBox(<<-3, -3, -3>>, <<3, 3, -1>>)
  /\ ContainsFrustum(frustum.vp, frustum.box)
  /\ frustum.visible

(***************************************************************************)
(* 03_LargeScene: the imported scene is merged by material, merged into    *)
(* one scene under a new root, and its root is marked as changed.          *)
(***************************************************************************)
MaxParNodes == 3

\* the index buffer of the k meshes of the asset: one triangle per mesh,
\* its indices relative to the first vertex of the mesh
AssetIndexData(k) ==
  [j \in 1..(3 * k) |->
     IF j % 3 = 0 THEN 2 + (((j \div 3) - 1) % 2) ELSE (j % 3) - 1]

IndexedMeshData(k) ==
  [meshes |-> [i \in 1..k |-> AssetMesh(i - 1)],
   boxes |-> [i \in 1..k |-> AssetBox(i - 1)],
   numIndices |-> 3 * k,
   numMaterials |-> Len(AssetMaterialNames),
   indexData |-> AssetIndexData(k)]

\* traverse() gives the mesh sub-nodes no children
LoadedScenes(k) ==
  {[sc EXCEPT !.materialNames = AssetMaterialNames] :
     sc \in {x \in ImportedScenes(k) :
               \A n \in DOMAIN x.meshForNode : H(x, n).firstChild = -1}}

\* the nodes mergeNodesWithMaterial hands to deleteSceneNodes have no
\* children, so its loop reads what the list holds
MergedByMaterial(sc, md, materialName) ==
  mergeNodesWithMaterial(sc, md, materialName,
    NodesToMerge(sc, FindMaterial(sc.materialNames, materialName)))

HasMaterial(sc, materialName) ==
  NodesToMerge(sc, FindMaterial(sc.materialNames, materialName)) # << >>

\* mergeScenes(ourScene, {&scene}, {}, {meshCount}) after the merge by
\* material, for every material some node has
LargeScenes(k) ==
  {mergeScenes(EmptyScene,
               <<MergedByMaterial(sc, IndexedMeshData(NumAssetMeshes),
                                  AssetMaterialNames[m]).scene>>,
               << >>, <<NumAssetMeshes + 1>>, TRUE, TRUE)
     : <<sc, m>> \in {x \in LoadedScenes(k) \X (1..Len(AssetMaterialNames)) :
                        HasMaterial(x[1], AssetMaterialNames[x[2]])}}

(***************************************************************************)
(* SpecParallel: recalculateGlobalTransforms with the nodes listed for one *)
(* level handed to concurrent tasks; a level ends when all its tasks have. *)
(***************************************************************************)
ParallelLoads == LoadedScenes(MaxParNodes) \cup LargeScenes(MaxParNodes)

\* one task per entry of changedAtThisFrame[i]
TasksOf(sc, i) ==
  [k \in 1..Len(sc.changedAtThisFrame[i]) |-> [st |-> "ready", val |-> Identity]]

\* the test of the loop over the levels, entered at level i
EnterLevel(sc, i) ==
  IF i < MAX_NODE_LEVEL /\ sc.changedAtThisFrame[i] # << >>
  THEN [NoPass EXCEPT !.pc = "tasks", !.i = i, !.log = TasksOf(sc, i)]
  ELSE [NoPass EXCEPT !.pc = "return", !.i = i]

InitParallel ==
  /\ \E sc \in ParallelLoads, n \in 0..(MaxParNodes + 1), delta \in Deltas :
       /\ n < NumNodes(sc)
       /\ scene = editTransform(sc, n, delta)
       /\ pre = scene
  /\ op = NoOp
  /\ frame = NoFrame
  /\ edits = 0
  /\ sources = << >>
  /\ mergeArgs = NoMergeArgs
  /\ results = NoResults
  /\ NoDraw

ParBegin ==
  /\ pass.pc = "idle"
  /\ scene' = RecalcRoot(scene)
  /\ pass' = EnterLevel(scene', 1)
  /\ UNCHANGED <<op, pre, frame, edits, dispatch, frustum, file, textures>>
  /\ UNCHANGED mergeVars
  /\ UNCHANGED drawVars

\* a task reads globalTransform[p] and localTransform[c]
TaskRead ==
  /\ pass.pc = "tasks"
  /\ \E k \in 1..Len(pass.log) :
       /\ pass.log[k].st = "ready"
       /\ LET c == scene.changedAtThisFrame[pass.i][k]
              p == H(scene, c).parent
          IN pass' = [pass EXCEPT !.log[k] =
                        [st |-> "read",
                         val |-> MatMul(scene.globalTransform[p + 1],
                                        scene.localTransform[c + 1])]]
  /\ UNCHANGED <<scene, op, pre, frame, edits, dispatch, frustum, file, textures>>
  /\ UNCHANGED mergeVars
  /\ UNCHANGED drawVars

\* and writes globalTransform[c]
TaskWrite ==
  /\ pass.pc = "tasks"
  /\ \E k \in 1..Len(pass.log) :
       /\ pass.log[k].st = "read"
       /\ LET c == scene.changedAtThisFrame[pass.i][k]
          IN scene' = [scene EXCEPT !.globalTransform[c + 1] = pass.log[k].val]
       /\ pass' = [pass EXCEPT !.log[k].st = "done"]
  /\ UNCHANGED <<op, pre, frame, edits, dispatch, frustum, file, textures>>
  /\ UNCHANGED mergeVars
  /\ UNCHANGED drawVars

\* changedAtThisFrame[i].clear() once every task of the level has ended
LevelDone ==
  /\ pass.pc = "tasks"
  /\ \A k \in 1..Len(pass.log) : pass.log[k].st = "done"
  /\ scene' = [scene EXCEPT !.changedAtThisFrame[pass.i] = << >>]
  /\ pass' = EnterLevel(scene', pass.i + 1)
  /\ UNCHANGED <<op, pre, frame, edits, dispatch, frustum, file, textures>>
  /\ UNCHANGED mergeVars
  /\ UNCHANGED drawVars

NextParallel == ParBegin \/ TaskRead \/ TaskWrite \/ LevelDone

SpecParallel == InitParallel /\ [][NextParallel]_vars

\* C21: when the nodes listed for a level are processed concurrently, level
\* after level, the global transforms at the end are those the sequential
\* recalculateGlobalTransforms computes from the same marked scene
C21_ParallelEqualsSequential ==
  pass.pc = "return"
    => scene.globalTransform = recalculateGlobalTransforms(pre).globalTransform

(***************************************************************************)
(* saveScene and loadScene.  A file is the sequence of the 4-byte words    *)
(* written to it; a reader is a file, a position and the end-of-file flag. *)
(***************************************************************************)
MaxSaveNodes == 3

RECURSIVE Flatten(_)
Flatten(seqs) ==
  IF seqs = << >> THEN << >> ELSE Head(seqs) \o Flatten(Tail(seqs))

\* the 16 floats of a glm::mat4, column by column
Mat4Words(m) ==
  <<m.s, 0, 0, 0,  0, m.s, 0, 0,  0, 0, m.s, 0,  m.t[1], m.t[2], m.t[3], 1>>

\* the matrix whose 16 floats are w
Mat4Of(w) == [s |-> w[1], t |-> <<w[13], w[14], w[15]>>]

\* the five ints of a struct Hierarchy in the order of their declaration
HierarchyWords(h) ==
  <<h.parent, h.firstChild, h.nextSibling, h.lastSibling, h.level>>

HierarchyOf(w) == Hierarchy(w[1], w[2], w[3], w[4], w[5])

OpenFile(words) == [words |-> words, pos |-> 0, eof |-> FALSE]

\* fread(ptr, size, count, f): the words read (fewer than count at the end
\* of the file, which sets the flag) and the reader after the call
fread(f, count) ==
  LET left == Len(f.words) - f.pos
      got  == IF count <= left THEN count ELSE left
  IN [items |-> SubSeq(f.words, f.pos + 1, f.pos + got),
      f |-> [f EXCEPT !.pos = @ + got, !.eof = @ \/ got < count]]

\* uint32_t sz = 0; fread(&sz, sizeof(sz), 1, f)
ReadSize(f) ==
  LET r == fread(f, 1)
  IN [sz |-> IF r.items = << >> THEN 0 ELSE r.items[1], f |-> r.f]

\* v.resize(sz); fread(v.data(), width words, sz, f): what is not read
\* keeps the words fill of the resized element
ReadArray(f, sz, width, fill) ==
  LET r == fread(f, sz * width)
  IN [recs |-> [i \in 1..sz |->
                  [j \in 1..width |->
                     IF (i - 1) * width + j <= Len(r.items)
                     THEN r.items[(i - 1) * width + j]
                     ELSE fill[j]]],
      f |-> r.f]

\* saveMap with the number of pairs written in place of the number of words
saveMap_PairCount(map, iter) ==
  <<Len(iter)>> \o Flatten([k \in 1..Len(iter) |-> <<iter[k], map[iter[k]]>>])

\* saveMap(f, map): iter is the order in which the unitered_map is
\* iterated
saveMap(map, iter) ==
  LET ms == Flatten([k \in 1..Len(iter) |-> <<iter[k], map[iter[k]]>>])
  IN <<Len(ms)>> \o ms

RECURSIVE InsertPairs(_, _, _)
\* for (i = 0; i < sz / 2; i++) map[ms[i*2]] = ms[i*2+1], the first n rounds
InsertPairs(map, ms, n) ==
  IF n = 0 THEN map
  ELSE MapPut(InsertPairs(map, ms, n - 1), ms[2 * n - 1], ms[2 * n])

\* loadMap(f, map)
loadMap(f, map) ==
  LET h  == ReadSize(f)
      r  == ReadArray(h.f, h.sz, 1, <<0>>)
      ms == [i \in 1..h.sz |-> r.recs[i][1]]
  IN [map |-> InsertPairs(map, ms, h.sz \div 2), f |-> r.f]

\* saveStringList(f, lines): the number of strings, then the strings
saveStringList(lines) == <<Len(lines)>> \o lines

\* loadStringList(f, lines)
loadStringList(f) ==
  LET h == ReadSize(f)
      r == fread(h.f, h.sz)
  IN [lines |-> r.items, f |-> r.f]

\* saveScene(fileName, scene): the words of the file; orders gives the
\* iteration order of each of the three maps
saveScene(sc, orders) ==
  <<Len(sc.hierarchy)>>
    \o Flatten([i \in 1..Len(sc.hierarchy) |-> Mat4Words(sc.localTransform[i])])
    \o Flatten([i \in 1..Len(sc.hierarchy) |-> Mat4Words(sc.globalTransform[i])])
    \o Flatten([i \in 1..Len(sc.hierarchy) |-> HierarchyWords(sc.hierarchy[i])])
    \o saveMap(sc.materialForNode, orders.material)
    \o saveMap(sc.meshForNode, orders.mesh)
    \o (IF sc.nodeNames # << >> /\ DOMAIN sc.nameForNode # {}
        THEN saveMap(sc.nameForNode, orders.name)
               \o saveStringList(sc.nodeNames)
               \o saveStringList(sc.materialNames)
        ELSE << >>)

\* loadScene(fileName, scene) into the Scene sc
loadScene(words, sc) ==
  LET h    == ReadSize(OpenFile(words))
      loc  == ReadArray(h.f, h.sz, 16, Mat4Words(Identity))
      glo  == ReadArray(loc.f, h.sz, 16, Mat4Words(Identity))
      hie  == ReadArray(glo.f, h.sz, 5, HierarchyWords(Hierarchy(-1, -1, -1, -1, 0)))
      mat  == loadMap(hie.f, sc.materialForNode)
      mesh == loadMap(mat.f, sc.meshForNode)
      sc1  == [sc EXCEPT
                 !.localTransform = [i \in 1..h.sz |-> Mat4Of(loc.recs[i])],
                 !.globalTransform = [i \in 1..h.sz |-> Mat4Of(glo.recs[i])],
                 !.hierarchy = [i \in 1..h.sz |-> HierarchyOf(hie.recs[i])],
                 !.materialForNode = mat.map,
                 !.meshForNode = mesh.map]
  IN IF ~mesh.f.eof
     THEN LET name  == loadMap(mesh.f, sc.nameForNode)
              nodeN == loadStringList(name.f)
              matN  == loadStringList(nodeN.f)
          IN [sc1 EXCEPT !.nameForNode = name.map,
                         !.nodeNames = sc.nodeNames \o nodeN.lines,
                         !.materialNames = sc.materialNames \o matN.lines]
     ELSE sc1

(***************************************************************************)
(* SpecSave: a scene of the program is saved and the file is loaded into   *)
(* an empty Scene.                                                         *)
(***************************************************************************)
RECURSIVE BareScenes(_)
\* the scenes of 0..k nodes built by addNode alone, which have no names
BareScenes(k) ==
  IF k = 0 THEN {EmptyScene}
  ELSE LET S == BareScenes(k - 1)
       IN S \cup {addNode(sc, -1, 0).scene : sc \in {x \in S : NumNodes(x) = 0}}
            \cup UNION {{addNode(sc, p, H(sc, p).level + 1).scene : p \in Nodes(sc)}
                          : sc \in {x \in S : NumNodes(x) = k - 1 /\ k > 1}}

SavedScenes ==
  LET S == BareScenes(MaxSaveNodes) \cup LoadedScenes(MaxSaveNodes)
             \cup LargeScenes(MaxSaveNodes)
  IN S \cup {Refreshed(sc) : sc \in {x \in S : NumNodes(x) > 0}}

InitSave ==
  /\ scene \in SavedScenes
  /\ op = NoOp
  /\ pre = EmptyScene
  /\ frame = NoFrame
  /\ edits = 0
  /\ sources = << >>
  /\ mergeArgs = NoMergeArgs
  /\ results = NoResults
  /\ NoDraw

SaveScene ==
  /\ op = NoOp
  /\ \E om \in Orders(DOMAIN scene.materialForNode),
        oh \in Orders(DOMAIN scene.meshForNode),
        on \in Orders(DOMAIN scene.nameForNode) :
       file' = [file EXCEPT !.words =
                  saveScene(scene, [material |-> om, mesh |-> oh, name |-> on])]
  /\ op' = [name |-> "saveScene"]
  /\ UNCHANGED <<scene, pre, frame, edits, pass, dispatch, frustum, textures>>
  /\ UNCHANGED mergeVars
  /\ UNCHANGED drawVars

LoadScene ==
  /\ op.name = "saveScene"
  /\ file' = [file EXCEPT !.loaded = <<loadScene(file.words, EmptyScene)>>]
  /\ op' = [name |-> "loadScene"]
  /\ UNCHANGED <<scene, pre, frame, edits, pass, dispatch, frustum, textures>>
  /\ UNCHANGED mergeVars
  /\ UNCHANGED drawVars

NextSave == SaveScene \/ LoadScene

SpecSave == InitSave /\ [][NextSave]_vars

\* C22: loading a saved scene into an empty Scene gives the node count, the
\* Hierarchy records, the local and global transforms and the mesh,
\* material and name maps of the scene that was saved
C22_LoadRestoresSaved ==
  op.name = "loadScene" =>
    LET l == file.loaded[1]
    IN /\ Len(l.hierarchy) = Len(scene.hierarchy)
       /\ l.hierarchy = scene.hierarchy
       /\ l.localTransform = scene.localTransform
       /\ l.globalTransform = scene.globalTransform
       /\ l.meshForNode = scene.meshForNode
       /\ l.materialForNode = scene.materialForNode
       /\ l.nameForNode = scene.nameForNode

\* a scene of three or more nodes with names, a mesh and a global transform
\* that is not the identity has been saved and loaded
C22_Witness ==
  /\ op.name = "loadScene"
  /\ NumNodes(scene) >= 3
  /\ Cardinality(DOMAIN scene.nameForNode) >= 2
  /\ DOMAIN scene.meshForNode # {}
  /\ \E n \in Nodes(scene) : scene.globalTransform[n + 1] # Identity
  /\ \E n \in Nodes(scene) : H(scene, n).lastSibling # -1

(***************************************************************************)
(* SpecRelabel: one deleteSceneNodes on an imported scene whose global     *)
(* transforms have been recalculated.                                      *)
(***************************************************************************)
MaxRelabelNodes == 4

\* the imported scenes whose mesh sub-nodes take the meshes of the asset in
\* turn, with the global transforms recalculated after the load
RelabelScenes ==
  {Refreshed(sc) :
     sc \in {x \in LoadedScenes(MaxRelabelNodes) :
               \A n \in DOMAIN x.meshForNode :
                 x.meshForNode[n] =
                   Cardinality({m \in DOMAIN x.meshForNode : m < n})
                     % NumAssetMeshes}}

InitRelabel ==
  /\ scene \in RelabelScenes
  /\ op = NoOp
  /\ pre = EmptyScene
  /\ frame = NoFrame
  /\ edits = 0
  /\ sources = << >>
  /\ mergeArgs = NoMergeArgs
  /\ results = NoResults
  /\ NoDraw

DeleteLoaded ==
  /\ op = NoOp
  /\ DeleteSceneNodes

NextRelabel == DeleteLoaded

SpecRelabel == InitRelabel /\ [][NextRelabel]_vars

\* the entry new(n) -> v is in the map after the call exactly when n -> v
\* was in it before for a surviving node n
MapCarried(after, before, table, surviving) ==
  /\ DOMAIN after = {table[n + 1] : n \in (DOMAIN before) \cap surviving}
  /\ \A n \in (DOMAIN before) \cap surviving : after[table[n + 1]] = before[n]

\* C23: deleteSceneNodes relabels the surviving nodes in their old order
\* (the old-to-new table is strictly increasing on them and -1 on the
\* deleted ones), the local and global transform of a survivor are found at
\* its new index, and each of the mesh, material and name maps holds
\* new(n) -> v exactly when it held n -> v for a survivor n
C23_SurvivorsRelabelled ==
  Deleted =>
    LET kept      == KeptNodes(pre, op.ids, op.reads)
        surviving == Range(kept)
        table     == NewIndices(kept, NumNodes(pre))
    IN /\ NumNodes(scene) = Cardinality(surviving)
       /\ \A n \in Nodes(pre) :
            IF n \in surviving THEN table[n + 1] \in Nodes(scene)
            ELSE table[n + 1] = -1
       /\ \A a, b \in surviving : a < b => table[a + 1] < table[b + 1]
       /\ \A n \in surviving :
            /\ scene.localTransform[table[n + 1] + 1] = pre.localTransform[n + 1]
            /\ scene.globalTransform[table[n + 1] + 1] = pre.globalTransform[n + 1]
       /\ MapCarried(scene.meshForNode, pre.meshForNode, table, surviving)
       /\ MapCarried(scene.materialForNode, pre.materialForNode, table, surviving)
       /\ MapCarried(scene.nameForNode, pre.nameForNode, table, surviving)

\* a node with a mesh and a translated global transform survives the
\* deletion of a node before it and gets a smaller index
C23_Witness ==
  /\ Deleted
  /\ \E n \in Nodes(pre) :
       LET kept == KeptNodes(pre, op.ids, op.reads)
       IN /\ n \in Range(kept)
          /\ NewIndexOf(kept, n) < n
          /\ n \in DOMAIN pre.meshForNode
          /\ pre.globalTransform[n + 1] # Identity
          /\ NewIndexOf(kept, n) \in DOMAIN scene.meshForNode

(***************************************************************************)
(* SpecMark: markAsChanged called on the nodes of a scene, the lists       *)
(* growing from call to call.                                              *)
(***************************************************************************)
MaxMarkNodes == 4

MaxMarks == 2

MarkScenes == BareScenes(MaxMarkNodes) \cup LargeScenes(MaxMarkNodes - 1)

InitMark ==
  /\ scene \in {sc \in MarkScenes : NumNodes(sc) > 0}
  /\ op = NoOp
  /\ pre = EmptyScene
  /\ frame = NoFrame
  /\ edits = 0
  /\ sources = << >>
  /\ mergeArgs = NoMergeArgs
  /\ results = NoResults
  /\ NoDraw

MarkAsChanged ==
  /\ edits < MaxMarks
  /\ \E node \in Nodes(scene) :
       /\ scene' = markAsChanged(scene, node)
       /\ op' = [name |-> "markAsChanged", node |-> node]
  /\ pre' = scene
  /\ edits' = edits + 1
  /\ UNCHANGED frame
  /\ UNCHANGED mergeVars
  /\ UNCHANGED drawVars
  /\ UNCHANGED stepVars

NextMark == MarkAsChanged

SpecMark == InitMark /\ [][NextMark]_vars

\* what a call appended to the list of a level
AppendedAt(level) ==
  SubSeq(scene.changedAtThisFrame[level],
         Len(pre.changedAtThisFrame[level]) + 1,
         Len(scene.changedAtThisFrame[level]))

\* C24: markAsChanged(n) appends n and every descendant of n, each to the
\* list of its own level and once, appends no other node and changes no
\* hierarchy record and no transform
C24_MarksExactlySubtree ==
  op.name = "markAsChanged" =>
    /\ \A level \in DOMAIN scene.changedAtThisFrame :
         /\ Len(scene.changedAtThisFrame[level]) >= Len(pre.changedAtThisFrame[level])
         /\ SubSeq(scene.changedAtThisFrame[level], 1, Len(pre.changedAtThisFrame[level]))
              = pre.changedAtThisFrame[level]
         /\ Range(AppendedAt(level))
              = {d \in Nodes(pre) : /\ InSubtreeOf(pre, d, {op.node})
                                    /\ H(pre, d).level = level}
         /\ \A i, j \in 1..Len(AppendedAt(level)) :
              AppendedAt(level)[i] = AppendedAt(level)[j] => i = j
    /\ scene.hierarchy = pre.hierarchy
    /\ scene.localTransform = pre.localTransform
    /\ scene.globalTransform = pre.globalTransform

\* a node with a grandchild is marked in a scene that has a node outside
\* its subtree, on lists that already hold entries
C24_Witness ==
  /\ op.name = "markAsChanged"
  /\ \E d \in Nodes(pre) :
       /\ H(pre, d).parent # -1
       /\ H(pre, H(pre, d).parent).parent = op.node
       /\ d \in Range(AppendedAt(H(pre, d).level))
  /\ \E x \in Nodes(pre) : ~InSubtreeOf(pre, x, {op.node})
  /\ \E level \in DOMAIN pre.changedAtThisFrame : pre.changedAtThisFrame[level] # << >>

(***************************************************************************)
(* SpecMaterial: mergeNodesWithMaterial on an imported scene and the mesh  *)
(* data of its asset.                                                      *)
(***************************************************************************)
MaxMaterialNodes == 4

InitMaterial ==
  /\ scene \in LoadedScenes(MaxMaterialNodes)
  /\ op = NoOp
  /\ pre = EmptyScene
  /\ frame = NoFrame
  /\ edits = 0
  /\ sources = << >>
  /\ mergeArgs = NoMergeArgs
  /\ results = NoResults
  /\ meshData = IndexedMeshData(NumAssetMeshes)
  /\ order = << >>
  /\ drawCommands = << >>
  /\ drawData = << >>
  /\ culling = NoCulling
  /\ pass = NoPass
  /\ dispatch = NoDispatch
  /\ frustum = NoFrustum
  /\ file = NoFile
  /\ textures = NoTextures

MergeNodesWithMaterial ==
  /\ edits < Len(AssetMaterialNames)
  /\ \E m \in 1..Len(AssetMaterialNames) :
       /\ HasMaterial(scene, AssetMaterialNames[m])
       /\ LET r == MergedByMaterial(scene, meshData, AssetMaterialNames[m])
          IN /\ scene' = r.scene
             /\ meshData' = r.meshData
             /\ op' = [name |-> "mergeNodesWithMaterial", material |-> m - 1,
                       toDelete |-> r.toDelete, overrun |-> r.overrun,
                       before |-> r.before, meshData |-> meshData]
  /\ pre' = scene
  /\ edits' = edits + 1
  /\ UNCHANGED <<frame, order, drawCommands, drawData, culling>>
  /\ UNCHANGED mergeVars
  /\ UNCHANGED stepVars

NextMaterial == MergeNodesWithMaterial

SpecMaterial == InitMaterial /\ [][NextMaterial]_vars

\* the index values a mesh descriptor addresses in an index array
IndicesOf(md, meshIndex) ==
  LET mesh == md.meshes[meshIndex + 1]
  IN [j \in 1..getLODIndicesCount(mesh, 0) |-> md.indexData[mesh.indexOffset + j]]

\* the meshes of the nodes to merge, each once, in ascending order
MergedMeshes(sc, nodes) ==
  LET S == {sc.meshForNode[nodes[k]] : k \in 1..Len(nodes)}
  IN SelectSeq([i \in 1..(NumAssetMeshes + Len(AssetMaterialNames)) |-> i - 1],
               LAMBDA x : x \in S)

MinOffset(md, meshes) ==
  CHOOSE v \in {md.meshes[meshes[k] + 1].vertexOffset : k \in 1..Len(meshes)} :
    \A k \in 1..Len(meshes) : v <= md.meshes[meshes[k] + 1].vertexOffset

\* the indices of the merged meshes, each rebiased by the vertexOffset of
\* its mesh minus the smallest vertexOffset among them
RebiasedIndices(md, meshes) ==
  Flatten([k \in 1..Len(meshes) |->
             LET own == IndicesOf(md, meshes[k])
                 delta == md.meshes[meshes[k] + 1].vertexOffset - MinOffset(md, meshes)
             IN [j \in 1..Len(own) |-> own[j] + delta]])

ValidMesh(md, v) ==
  /\ v \in 0..(Len(md.meshes) - 1)
  /\ LET mesh == md.meshes[v + 1]
     IN mesh.indexOffset + getLODIndicesCount(mesh, 0) <= Len(md.indexData)

\* the nodes the call was to merge are gone
MergedNodesGone ==
  LET kept == KeptNodes(op.before, op.toDelete, op.toDelete)
  IN /\ NumNodes(scene) = NumNodes(pre) + 1 - Len(op.toDelete)
     /\ \A k \in 1..Len(op.toDelete) : op.toDelete[k] \notin Range(kept)

\* nn is the new node: a child of the root at level 1 with the material and
\* the merged mesh
IsMergedNode(nn) ==
  /\ H(scene, nn).parent = 0
  /\ H(scene, nn).level = 1
  /\ nn \in DOMAIN scene.materialForNode
  /\ scene.materialForNode[nn] = op.material
  /\ nn \in DOMAIN scene.meshForNode
  /\ ValidMesh(meshData, scene.meshForNode[nn])
  /\ LET merged == MergedMeshes(pre, op.toDelete)
     IN /\ IndicesOf(meshData, scene.meshForNode[nn])
             = RebiasedIndices(op.meshData, merged)
        /\ meshData.meshes[scene.meshForNode[nn] + 1].vertexOffset
             = MinOffset(op.meshData, merged)

\* every other node that had a mesh refers to a descriptor with the index
\* values of its old mesh
OthersKeepIndices ==
  LET kept == KeptNodes(op.before, op.toDelete, op.toDelete)
  IN \A n \in (DOMAIN pre.meshForNode) \cap Range(kept) :
       LET nn == NewIndexOf(kept, n)
       IN /\ nn \in DOMAIN scene.meshForNode
          /\ ValidMesh(meshData, scene.meshForNode[nn])
          /\ IndicesOf(meshData, scene.meshForNode[nn])
               = IndicesOf(op.meshData, pre.meshForNode[n])

\* C25: after mergeNodesWithMaterial the nodes with a mesh and the material
\* are gone, one new child of the root at level 1 carries the material and a
\* mesh whose index range holds the rebiased indices of all merged meshes
\* with the smallest vertexOffset, and every other node with a mesh refers
\* to a valid descriptor with the index values of its mesh before the call
C25_MergedIntoOneNode ==
  op.name = "mergeNodesWithMaterial" =>
    /\ MergedNodesGone
    /\ Cardinality({nn \in Nodes(scene) : IsMergedNode(nn)}) = 1
    /\ OthersKeepIndices

(***************************************************************************)
(* SpecGraph: the scene graph edited by addNode, deleteSceneNodes,         *)
(* mergeScenes and mergeNodesWithMaterial in any order.                    *)
(***************************************************************************)
MaxGraphNodes == 2

\* no operation makes a scene larger than this
GraphTotal == MaxGraphNodes + 3

MaxGraphOps == 2

\* the edits start from one of the scenes S and the mesh data of the asset
GraphStart(S) ==
  /\ scene \in S
  /\ op = NoOp
  /\ pre = EmptyScene
  /\ frame = NoFrame
  /\ edits = 0
  /\ sources = << >>
  /\ mergeArgs = NoMergeArgs
  /\ results = NoResults
  /\ meshData = IndexedMeshData(NumAssetMeshes)
  /\ order = << >>
  /\ drawCommands = << >>
  /\ drawData = << >>
  /\ culling = NoCulling
  /\ pass = NoPass
  /\ dispatch = NoDispatch
  /\ frustum = NoFrustum
  /\ file = NoFile
  /\ textures = NoTextures

InitGraph == GraphStart({EmptyScene} \cup LoadedScenes(MaxGraphNodes))

\* addNode below a node of the scene, or as the root of an empty scene
GraphAddNode ==
  /\ edits < MaxGraphOps
  /\ NumNodes(scene) < GraphTotal
  /\ \E parent \in (IF NumNodes(scene) = 0 THEN {-1} ELSE Nodes(scene)) :
       LET r == addNode(scene, parent,
                        IF parent = -1 THEN 0 ELSE H(scene, parent).level + 1)
       IN /\ scene' = r.scene
          /\ op' = [name |-> "addNode"]
  /\ pre' = EmptyScene
  /\ edits' = edits + 1
  /\ UNCHANGED frame
  /\ UNCHANGED mergeVars
  /\ UNCHANGED drawVars
  /\ UNCHANGED stepVars

GraphDelete ==
  /\ edits < MaxGraphOps
  /\ \E ids \in IdLists(scene) :
       \E reads \in PossibleReads(scene, ids) :
         /\ scene' = deleteSceneNodes(scene, ids, reads)
         /\ op' = [name |-> "deleteSceneNodes"]
  /\ pre' = EmptyScene
  /\ edits' = edits + 1
  /\ UNCHANGED frame
  /\ UNCHANGED mergeVars
  /\ UNCHANGED drawVars
  /\ UNCHANGED stepVars

\* mergeScenes of one or two copies of the scene that share its mesh and
\* material data
GraphMergeScenes ==
  /\ edits < MaxGraphOps
  /\ NumNodes(scene) > 0
  /\ \E copies \in 1..2 :
       /\ 1 + copies * NumNodes(scene) <= GraphTotal
       /\ scene' = mergeScenes(EmptyScene, [i \in 1..copies |-> scene], << >>,
                               [i \in 1..copies |-> Len(meshData.meshes)],
                               FALSE, FALSE)
       /\ op' = [name |-> "mergeScenes"]
  /\ pre' = EmptyScene
  /\ edits' = edits + 1
  /\ UNCHANGED frame
  /\ UNCHANGED mergeVars
  /\ UNCHANGED drawVars
  /\ UNCHANGED stepVars

\* the values the loop of deleteSceneNodes may read when it is called at
\* the end of mergeNodesWithMaterial
MergeReads(sc, md, materialName) ==
  LET r == MergedByMaterial(sc, md, materialName)
  IN PossibleReads(r.before, r.toDelete)

GraphMergeMaterial ==
  /\ edits < MaxGraphOps
  /\ NumNodes(scene) < GraphTotal
  /\ \E m \in 1..Len(AssetMaterialNames) :
       /\ HasMaterial(scene, AssetMaterialNames[m])
       /\ \E reads \in MergeReads(scene, meshData, AssetMaterialNames[m]) :
            LET r == mergeNodesWithMaterial(scene, meshData,
                                            AssetMaterialNames[m], reads)
            IN /\ scene' = r.scene
               /\ meshData' = r.meshData
               /\ op' = [name |-> "mergeNodesWithMaterial"]
  /\ pre' = EmptyScene
  /\ edits' = edits + 1
  /\ UNCHANGED <<frame, order, drawCommands, drawData, culling>>
  /\ UNCHANGED mergeVars
  /\ UNCHANGED stepVars

NextGraph ==
  GraphAddNode \/ GraphDelete \/ GraphMergeScenes \/ GraphMergeMaterial

SpecGraph == InitGraph /\ [][NextGraph]_vars

\* C26: in every scene reached by addNode, deleteSceneNodes, mergeScenes and
\* mergeNodesWithMaterial the parent of a node has a smaller index than the
\* node, and its firstChild and nextSibling, when not -1, a larger one
C26_IndicesOrdered ==
  \A n \in Nodes(scene) :
    /\ H(scene, n).parent < n
    /\ H(scene, n).firstChild # -1 => H(scene, n).firstChild > n
    /\ H(scene, n).nextSibling # -1 => H(scene, n).nextSibling > n

\* a scene merged by material and then merged under a new root, with a
\* node that has a parent, a child and a sibling
C26_Witness ==
  /\ op.name = "mergeScenes"
  /\ edits = 2
  /\ \E n \in Nodes(scene) : n \in DOMAIN scene.meshForNode
                             /\ scene.meshForNode[n] >= NumAssetMeshes
  /\ \E n \in Nodes(scene) :
       /\ H(scene, n).parent > -1
       /\ H(scene, n).firstChild > n
  /\ \E n \in Nodes(scene) : H(scene, n).nextSibling > n

(***************************************************************************)
(* SpecSiblings: the scene graph edited by addNode, deleteSceneNodes and   *)
(* mergeScenes in any order.                                               *)
(***************************************************************************)
MaxSiblingNodes == 3

InitSiblings == GraphStart(LoadedScenes(MaxSiblingNodes))

NextSiblings == GraphAddNode \/ GraphDelete \/ GraphMergeScenes

SpecSiblings == InitSiblings /\ [][NextSiblings]_vars

\* the node a linear scan from s along nextSibling ends at
ScanDest(sc, s) ==
  LET c == ChainFrom(sc, s, NumNodes(sc) + 1)
  IN c[Len(c)]

\* C27: in every scene reached by addNode, deleteSceneNodes and mergeScenes,
\* a lastSibling >= 0 cached in the first child of a parent is the last node
\* of the chain of that parent, the one whose nextSibling is -1, which is
\* where the linear scan of addNode ends
C27_CachedLastSibling ==
  \A p \in Nodes(scene) :
    LET s == H(scene, p).firstChild
    IN (s \in Nodes(scene) /\ H(scene, s).lastSibling >= 0) =>
         /\ H(scene, s).lastSibling \in Nodes(scene)
         /\ H(scene, H(scene, s).lastSibling).nextSibling = -1
         /\ H(scene, s).lastSibling = ScanDest(scene, s)

(***************************************************************************)
(* SpecLevels: deep scenes built by addNode and mergeScenes, marked and    *)
(* recalculated.  op records the indices at which markAsChanged accessed   *)
(* changedAtThisFrame.                                                     *)
(***************************************************************************)
MaxDepth == 16

MaxExtraNodes == 1

RECURSIVE Chain(_)
\* the scene of d nodes in which each node is the child of the one before
\* it, added at the level of its depth
Chain(d) ==
  IF d = 0 THEN EmptyScene
  ELSE addNode(Chain(d - 1), d - 2, d - 1).scene

RECURSIVE MarkedLevels(_, _)
RECURSIVE MarkedLevelsOfSiblings(_, _)
\* the values of level at which markAsChanged(scene, node) and its
\* recursive calls index changedAtThisFrame
MarkedLevels(sc, node) ==
  {H(sc, node).level} \cup MarkedLevelsOfSiblings(sc, H(sc, node).firstChild)

MarkedLevelsOfSiblings(sc, s) ==
  IF s = -1 THEN {}
  ELSE MarkedLevels(sc, s) \cup MarkedLevelsOfSiblings(sc, H(sc, s).nextSibling)

\* the index is inside vector<int> changedAtThisFrame[MAX_NODE_LEVEL]
InsideArray(level) == level \in 0..(MAX_NODE_LEVEL - 1)

InitLevels ==
  /\ scene \in {Chain(d) : d \in 1..MaxDepth}
  /\ op = [name |-> "none", levels |-> {}]
  /\ pre = EmptyScene
  /\ frame = NoFrame
  /\ edits = 0
  /\ sources = << >>
  /\ mergeArgs = NoMergeArgs
  /\ results = NoResults
  /\ NoDraw

\* nothing is modelled after an access outside the array
Defined == \A level \in op.levels : InsideArray(level)

DeepAddNode ==
  /\ Defined
  /\ frame = NoFrame
  /\ edits < MaxExtraNodes
  /\ \E parent \in Nodes(scene) :
       scene' = addNode(scene, parent, H(scene, parent).level + 1).scene
  /\ op' = [name |-> "addNode", levels |-> {}]
  /\ edits' = edits + 1
  /\ UNCHANGED <<pre, frame>>
  /\ UNCHANGED mergeVars
  /\ UNCHANGED drawVars
  /\ UNCHANGED stepVars

DeepMergeScenes ==
  /\ Defined
  /\ frame = NoFrame
  /\ edits < MaxExtraNodes
  /\ scene' = mergeScenes(EmptyScene, <<scene>>, << >>, <<0>>, TRUE, TRUE)
  /\ op' = [name |-> "mergeScenes", levels |-> {}]
  /\ edits' = edits + 1
  /\ UNCHANGED <<pre, frame>>
  /\ UNCHANGED mergeVars
  /\ UNCHANGED drawVars
  /\ UNCHANGED stepVars

DeepMarkAsChanged ==
  /\ Defined
  /\ frame = NoFrame
  /\ \E node \in Nodes(scene) :
       /\ scene' = markAsChanged(scene, node)
       /\ op' = [name |-> "markAsChanged", levels |-> MarkedLevels(scene, node)]
       /\ frame' = [stage |-> "marked", node |-> node]
  /\ UNCHANGED <<pre, edits>>
  /\ UNCHANGED mergeVars
  /\ UNCHANGED drawVars
  /\ UNCHANGED stepVars

\* recalculateGlobalTransforms reads changedAtThisFrame[0] and then
\* changedAtThisFrame[i] for 1 <= i < MAX_NODE_LEVEL up to the first empty one
RecalcLevelsRead(sc) ==
  {0} \cup {i \in 1..(MAX_NODE_LEVEL - 1) :
              \A j \in 1..(i - 1) : sc.changedAtThisFrame[j] # << >>}

DeepRecalculate ==
  /\ Defined
  /\ frame.stage = "marked"
  /\ scene' = recalculateGlobalTransforms(scene)
  /\ op' = [name |-> "recalculateGlobalTransforms",
            levels |-> RecalcLevelsRead(scene)]
  /\ frame' = [frame EXCEPT !.stage = "recalculated"]
  /\ UNCHANGED <<pre, edits>>
  /\ UNCHANGED mergeVars
  /\ UNCHANGED drawVars
  /\ UNCHANGED stepVars

NextLevels ==
  DeepAddNode \/ DeepMergeScenes \/ DeepMarkAsChanged \/ DeepRecalculate

SpecLevels == InitLevels /\ [][NextLevels]_vars

\* C28: on every scene built by addNode and mergeScenes, markAsChanged and
\* recalculateGlobalTransforms index changedAtThisFrame only at levels
\* below MAX_NODE_LEVEL
C28_LevelsBelowBound ==
  \A level \in op.levels : InsideArray(level)

(***************************************************************************)
(* SpecTextures: VKMesh11Lazy.  The tasks of the two loader threads append *)
(* to loadedTextureData_ while the render thread calls                     *)
(* processLoadedTextures once per frame.                                   *)
(***************************************************************************)
MaxMaterials == 2

MaxCalls == 3

\* tf::Executor executor_{ size_t(2) }
NumLoaders == 2

Loaders == 1..NumLoaders

IdleLoader == [pc |-> "idle", task |-> -1]

InitTextures ==
  /\ InitScene
  /\ sources = << >>
  /\ mergeArgs = NoMergeArgs
  /\ results = NoResults
  /\ meshData = NoMeshData
  /\ order = << >>
  /\ drawCommands = << >>
  /\ drawData = << >>
  /\ culling = NoCulling
  /\ pass = NoPass
  /\ dispatch = NoDispatch
  /\ frustum = NoFrustum
  /\ file = NoFile
  /\ \E n \in 1..MaxMaterials :
       textures = [NoTextures EXCEPT
                     !.tasks = 0..(n - 1),
                     !.loader = [l \in Loaders |-> IdleLoader],
                     !.materialsGPU = [i \in 1..n |-> "empty"]]

texturesOnly == <<scene, op, pre, frame, edits, pass, dispatch, frustum, file>>

\* a loader thread takes the next index of for_each_index and loads the
\* texture data of that material
LoaderTake ==
  /\ \E l \in Loaders, i \in textures.tasks :
       /\ textures.loader[l].pc = "idle"
       /\ textures' = [textures EXCEPT !.tasks = @ \ {i},
                                       !.loader[l] = [pc |-> "loaded", task |-> i]]
  /\ UNCHANGED texturesOnly
  /\ UNCHANGED mergeVars
  /\ UNCHANGED drawVars

\* std::lock_guard lock(loadingMutex_) in a loader task
LoaderLock ==
  /\ \E l \in Loaders :
       /\ textures.loader[l].pc = "loaded"
       /\ textures.mutex = "free"
       /\ textures' = [textures EXCEPT !.mutex = "loader",
                                       !.loader[l].pc = "locked"]
  /\ UNCHANGED texturesOnly
  /\ UNCHANGED mergeVars
  /\ UNCHANGED drawVars

\* loadedTextureData_.push_back(...) and the end of the scope of the lock
LoaderAppend ==
  /\ \E l \in Loaders :
       /\ textures.loader[l].pc = "locked"
       /\ textures' = [textures EXCEPT
            !.loadedTextureData =
               Append(@, [id |-> textures.appended,
                          index |-> textures.loader[l].task]),
            !.appended = @ + 1,
            !.mutex = "free",
            !.loader[l].pc = "appended"]
  /\ UNCHANGED texturesOnly
  /\ UNCHANGED mergeVars
  /\ UNCHANGED drawVars

\* materialsGPU_[i] = convertToGPUMaterialLazy(...)
LoaderStore ==
  /\ \E l \in Loaders :
       /\ textures.loader[l].pc = "appended"
       /\ textures' = [textures EXCEPT
            !.materialsGPU[textures.loader[l].task + 1] = "lazy",
            !.loader[l] = IdleLoader]
  /\ UNCHANGED texturesOnly
  /\ UNCHANGED mergeVars
  /\ UNCHANGED drawVars

\* the render loop calls processLoadedTextures: std::lock_guard lock(...)
ProcessLock ==
  /\ textures.render.pc = "idle"
  /\ Len(textures.calls) < MaxCalls
  /\ textures.mutex = "free"
  /\ textures' = [textures EXCEPT !.mutex = "render", !.render.pc = "locked"]
  /\ UNCHANGED texturesOnly
  /\ UNCHANGED mergeVars
  /\ UNCHANGED drawVars

\* tex = loadedTextureData_.back() without the pop_back() after it
TakeBack_NoPop(list) == [tex |-> <<list[Len(list)]>>, list |-> list]

\* tex = loadedTextureData_.back(); loadedTextureData_.pop_back()
TakeBack(list) ==
  [tex |-> <<list[Len(list)]>>, list |-> SubSeq(list, 1, Len(list) - 1)]

\* if (loadedTextureData_.empty()) return false
ProcessEmpty ==
  /\ textures.render.pc = "locked"
  /\ textures.loadedTextureData = << >>
  /\ textures' = [textures EXCEPT
       !.mutex = "free",
       !.render = [pc |-> "idle", tex |-> << >>],
       !.calls = Append(@, [sawEmpty |-> TRUE, result |-> FALSE,
                            removed |-> << >>, wroteCache |-> FALSE,
                            wroteMaterials |-> FALSE])]
  /\ UNCHANGED texturesOnly
  /\ UNCHANGED mergeVars
  /\ UNCHANGED drawVars

\* the first block of processLoadedTextures on a list that is not empty
ProcessTake ==
  /\ textures.render.pc = "locked"
  /\ textures.loadedTextureData # << >>
  /\ LET r == TakeBack(textures.loadedTextureData)
     IN textures' = [textures EXCEPT
          !.mutex = "free",
          !.loadedTextureData = r.list,
          !.render = [pc |-> "create", tex |-> r.tex]]
  /\ UNCHANGED texturesOnly
  /\ UNCHANGED mergeVars
  /\ UNCHANGED drawVars

\* ctx->createTexture(tex.desc), then the second std::lock_guard
ProcessCreate ==
  /\ textures.render.pc = "create"
  /\ textures.mutex = "free"
  /\ textures' = [textures EXCEPT !.mutex = "render", !.render.pc = "update"]
  /\ UNCHANGED texturesOnly
  /\ UNCHANGED mergeVars
  /\ UNCHANGED drawVars

\* textureCache_[tex.index] = texture; every material is refreshed from the
\* cache and uploaded; return true
ProcessUpdate ==
  /\ textures.render.pc = "update"
  /\ textures' = [textures EXCEPT
       !.mutex = "free",
       !.textureCache = @ \cup {textures.render.tex[1].index},
       !.materialsGPU = [i \in DOMAIN @ |->
                           IF (i - 1) \in textures.textureCache
                                            \cup {textures.render.tex[1].index}
                           THEN "texture" ELSE "none"],
       !.render = [pc |-> "idle", tex |-> << >>],
       !.calls = Append(@, [sawEmpty |-> FALSE, result |-> TRUE,
                            removed |-> <<textures.render.tex[1].id>>,
                            wroteCache |-> TRUE, wroteMaterials |-> TRUE])]
  /\ UNCHANGED texturesOnly
  /\ UNCHANGED mergeVars
  /\ UNCHANGED drawVars

NextTextures ==
  \/ LoaderTake \/ LoaderLock \/ LoaderAppend \/ LoaderStore
  \/ ProcessLock \/ ProcessEmpty \/ ProcessTake \/ ProcessCreate
  \/ ProcessUpdate

SpecTextures == InitTextures /\ [][NextTextures]_vars

\* the ids of the entries the finished calls removed, call after call
RemovedEntries ==
  Flatten([k \in 1..Len(textures.calls) |-> textures.calls[k].removed])

\* the ids of the entries that wait in the list or are held by the call in
\* progress
PendingEntries ==
  [k \in 1..Len(textures.loadedTextureData) |-> textures.loadedTextureData[k].id]
    \o [k \in 1..Len(textures.render.tex) |-> textures.render.tex[k].id]

\* C29: under every interleaving of the loader threads and the render
\* thread an entry appended to loadedTextureData_ is removed by one call of
\* processLoadedTextures and no other (until then it waits in the list), a
\* call removes at most one entry, and a call that finds the list empty
\* returns false without changing the texture cache or the material data
C29_EntriesRemovedOnce ==
  LET all == RemovedEntries \o PendingEntries
  IN /\ Range(all) = 0..(textures.appended - 1)
     /\ \A i, j \in 1..Len(all) : all[i] = all[j] => i = j
     /\ \A k \in 1..Len(textures.calls) :
          LET call == textures.calls[k]
          IN /\ Len(call.removed) <= 1
             /\ call.sawEmpty =>
                  /\ ~call.result
                  /\ call.removed = << >>
                  /\ ~call.wroteCache
                  /\ ~call.wroteMaterials
             /\ ~call.sawEmpty => call.result /\ Len(call.removed) = 1

\* two entries appended by the two loader threads have been removed by two
\* calls, and another call found the list empty
C29_Witness ==
  /\ textures.appended = 2
  /\ Len(RemovedEntries) = 2
  /\ \E k \in 1..Len(textures.calls) : textures.calls[k].sawEmpty
  /\ textures.loadedTextureData = << >>
  /\ textures.textureCache = {0, 1}

(***************************************************************************)
(* The thread groups of the culling dispatch: which lane handles which     *)
(* draw command, and what the lanes past the last object do.               *)
(***************************************************************************)
MaxObjects == 70

\* layout (local_size_x = 64) of the culling shader
LocalSizeX == 64

\* a dispatch of no groups
NumGroups_RoundedDown(n) == n \div LocalSizeX

\* cmdDispatchThreadGroups({ 1 + cullingData.numMeshesToCull / 64 })
NumGroups(n) == 1 + n \div 64

\* gl_GlobalInvocationID.x of the lane local of the thread group group
GlobalInvocationID(group, local) == group * LocalSizeX + local

\* the results isAABBinFrustum gives over the objects of one dispatch
Visibility == {"all", "none", "alternate"}

\* isAABBinFrustum(box) ? 1 : 0 for the object of the command idx
LaneNumInstances(visible, idx) ==
  CASE visible = "all" -> 1
    [] visible = "none" -> 0
    [] OTHER -> idx % 2

\* commands.dc[idx].instanceCount = numInstances, counted per command; a
\* store past dc[numMeshesToCull - 1] is counted in outside
StoreCommand(d, idx) ==
  IF idx < Len(d.written)
  THEN [d EXCEPT !.written[idx + 1] = @ + 1]
  ELSE [d EXCEPT !.outside = @ + 1]

\* main() of the culling shader for the lane idx
main(d, idx) ==
  IF idx < d.numShapesToCull
  THEN LET numInstances == LaneNumInstances(d.visible, idx)
           stored == StoreCommand(d, idx)
       IN  [stored EXCEPT !.numVisibleMeshes = atomicAdd(@, numInstances)]
  ELSE d

\* CullingData before the dispatch: numMeshesToCull objects, the counter 0
NoLanes(n, visible) ==
  [numMeshesToCull |-> n, numShapesToCull |-> n, visible |-> visible,
   dispatched |-> FALSE, groups |-> {}, group |-> -1, local |-> 0,
   written |-> [i \in 1..n |-> 0], outside |-> 0, numVisibleMeshes |-> 0]

InitLanes ==
  /\ InitScene
  /\ sources = << >>
  /\ mergeArgs = NoMergeArgs
  /\ results = NoResults
  /\ meshData = NoMeshData
  /\ order = << >>
  /\ drawCommands = << >>
  /\ drawData = << >>
  /\ culling = NoCulling
  /\ pass = NoPass
  /\ frustum = NoFrustum
  /\ file = NoFile
  /\ textures = NoTextures
  /\ \E n \in 0..MaxObjects, visible \in Visibility :
       dispatch = NoLanes(n, visible)

lanesOnly == <<scene, op, pre, frame, edits, pass, frustum, file, textures>>

\* buf.cmdDispatchThreadGroups({ 1 + cullingData.numMeshesToCull / 64 })
DispatchThreadGroups ==
  /\ ~dispatch.dispatched
  /\ dispatch' = [dispatch EXCEPT
                    !.dispatched = TRUE,
                    !.groups = 0..(NumGroups(dispatch.numMeshesToCull) - 1)]
  /\ UNCHANGED lanesOnly
  /\ UNCHANGED mergeVars
  /\ UNCHANGED drawVars

\* the device starts one of the thread groups, in any order
GroupStart ==
  /\ dispatch.dispatched
  /\ dispatch.group = -1
  /\ \E g \in dispatch.groups :
       dispatch' = [dispatch EXCEPT !.groups = @ \ {g}, !.group = g,
                                    !.local = 0]
  /\ UNCHANGED lanesOnly
  /\ UNCHANGED mergeVars
  /\ UNCHANGED drawVars

\* the next lane of the running thread group runs main(); the lanes touch
\* different commands and the adds commute, so they are taken in the order
\* of gl_LocalInvocationID.x
LaneMain ==
  /\ dispatch.group >= 0
  /\ LET idx == GlobalInvocationID(dispatch.group, dispatch.local)
         after == main(dispatch, idx)
         last == dispatch.local + 1 = LocalSizeX
     IN  dispatch' = [after EXCEPT !.local = IF last THEN 0 ELSE @ + 1,
                                   !.group = IF last THEN -1 ELSE @]
  /\ UNCHANGED lanesOnly
  /\ UNCHANGED mergeVars
  /\ UNCHANGED drawVars

NextLanes == DispatchThreadGroups \/ GroupStart \/ LaneMain

SpecLanes == InitLanes /\ [][NextLanes]_vars

\* every thread group of the dispatch has run
LanesFinished ==
  /\ dispatch.dispatched
  /\ dispatch.groups = {}
  /\ dispatch.group = -1

\* the lane idx has run main()
LaneHasRun(idx) ==
  LET g == idx \div LocalSizeX
  IN  /\ dispatch.dispatched
      /\ g \notin dispatch.groups
      /\ \/ dispatch.group # g
         \/ dispatch.local > idx % LocalSizeX

\* no command is stored twice, and once the dispatch has finished every
\* command has been stored
EveryCommandOnce ==
  /\ \A k \in 1..dispatch.numMeshesToCull : dispatch.written[k] <= 1
  /\ LanesFinished =>
       \A k \in 1..dispatch.numMeshesToCull : dispatch.written[k] = 1

\* the lane that runs in this step has an index past the last object
PastLastObject ==
  /\ dispatch.group >= 0
  /\ GlobalInvocationID(dispatch.group, dispatch.local)
       >= dispatch.numMeshesToCull
  /\ dispatch'.local # dispatch.local

\* C30: for every object count N the dispatch of 1 + N / 64 thread groups of
\* 64 lanes stores every draw command 0..N-1 exactly once, and a lane whose
\* index is N or more stores no draw command and leaves numVisibleMeshes as
\* it was
C30_OneLanePerCommand ==
  /\ []EveryCommandOnce
  /\ [][PastLastObject =>
          /\ dispatch'.written = dispatch.written
          /\ dispatch'.outside = dispatch.outside
          /\ dispatch'.numVisibleMeshes = dispatch.numVisibleMeshes]_vars

\* 64 objects, some of them visible: the second thread group has run and
\* all of its lanes were past the last object
C30_Witness ==
  /\ LanesFinished
  /\ dispatch.numMeshesToCull = LocalSizeX
  /\ dispatch.numVisibleMeshes > 0
  /\ \A idx \in LocalSizeX..(2 * LocalSizeX - 1) : LaneHasRun(idx)

====
